---- MODULE Spec2Model ----
(***************************************************************************)
(* Grid navigation of the Reachy Mini simulator: the office map            *)
(* (office_map.py), the A* path finder and the Navigator (navigation.py),  *)
(* and the point-to-point movement of the mock robot (mock_robot.py).      *)
(*                                                                         *)
(* Numbers.  The code computes with IEEE doubles.  Here every length,      *)
(* cost and time is an integer number of thousandths (ORTH_COST = 1000 is  *)
(* the code's 1.0), and a square root is truncated to a thousandth.  The   *)
(* path finder modelled this way returns, on every grid, a path of the     *)
(* same cost as the code's; among paths of equal cost its choice can       *)
(* differ from the one IEEE rounding makes.                                *)
(***************************************************************************)
EXTENDS Integers, Sequences, FiniteSets, TLC

VARIABLES
    grid,        \* OfficeMap.grid: cell -> CellType
    named_locations, \* OfficeMap.named_locations: name -> NamedLocation
    nav,         \* the Navigator
    robot,       \* the MockReachyMini the navigator drives
    last,        \* the last call made: its arguments and what it returned
    patrol_log,  \* the schedule last given to set_patrol_schedule, and the
                 \* entries check_patrol has triggered since
    used,        \* how many navigate_to and set_cell calls have been made
    sensor,      \* the MockObstacleDetector: its registered obstacle callbacks
    callback_log, \* the callback of the last successful navigate_to, how many
                 \* times update has invoked a callback since, and the
                 \* callback of the navigation that navigate_to superseded
    as_start,    \* a_star calls: the start argument
    as_pc,       \* a_star calls: "pending" before the calls, "done" after them
    as_result,   \* a_star calls: goal argument -> result of a_star
    search,      \* a_star run step by step: its arguments, heap and scores
    web,         \* the web host: the simulation lock and where each thread is
    scenario,    \* the ScenarioEngine
    proactive,   \* the ProactiveTrigger
    persons,     \* the MockPersonDetector
    omap,        \* an OfficeMap read by load_from_json
    chassis      \* the MockChassis

\* the parts that the navigation, map and sensor calls leave alone
others == <<search, web, scenario, proactive, persons, omap, chassis>>

vars == <<grid, named_locations, nav, robot, last, patrol_log, used, callback_log,
          sensor, as_start, as_pc, as_result, others>>

----------------------------------------------------------------------------
(* Bounds of the model *)

Width == 3
Height == 3
MaxBlocked == 2
MaxEdits == 1
MaxNavigate == 2
MaxSched == 2
MaxMapEdits == 2
MaxListeners == 2
MaxMoves == 2
MaxEvents == 2
MaxLoads == 1
MaxScenarioTime == 3000

MaxIdle == 170000

MaxAbsence == 50000

MaxClock == 2

MaxTicks == 2

----------------------------------------------------------------------------
\* Python's None: for a name or a callback, and for a pair of coordinates
None == "None"
NoPos == <<>>

----------------------------------------------------------------------------
(* office_map.py *)

EMPTY == 0
WALL == 1
DOOR == 2
DESK == 3
CHAIR == 4
CHARGER == 5

CellTypes == {EMPTY, WALL, DOOR, DESK, CHAIR, CHARGER}

_WALKABLE == {EMPTY, DOOR, CHARGER}

_DIRECTIONS_8 ==
    << <<-1, 0>>, <<1, 0>>, <<0, -1>>, <<0, 1>>,
       <<-1, -1>>, <<-1, 1>>, <<1, -1>>, <<1, 1>> >>

Cells == (0..(Width - 1)) \X (0..(Height - 1))

_in_bounds(x, y) == 0 <= x /\ x < Width /\ 0 <= y /\ y < Height

\* is_walkable with a slip: only the upper bounds are tested, and a
\* negative index counts from the end, as it does in a numpy array
is_walkable_UpperBoundsOnly(g, x, y) ==
    IF x >= Width \/ y >= Height \/ x < -Width \/ y < -Height THEN FALSE
    ELSE g[<<x % Width, y % Height>>] \in _WALKABLE

is_walkable(g, x, y) ==
    IF ~_in_bounds(x, y) THEN FALSE ELSE g[<<x, y>>] \in _WALKABLE

\* NeighborOk without the corner test of lines 162-164
NeighborOk_CutsCorners(g, x, y, d) == is_walkable(g, x + d[1], y + d[2])

\* NeighborOk with a slip: one walkable flank is enough for a diagonal
NeighborOk_OneFlank(g, x, y, d) ==
    /\ is_walkable(g, x + d[1], y + d[2])
    /\ (d[1] # 0 /\ d[2] # 0) =>
           (is_walkable(g, x + d[1], y) \/ is_walkable(g, x, y + d[2]))

\* get_neighbors: the test one direction passes (lines 158-164)
NeighborOk(g, x, y, d) ==
    /\ is_walkable(g, x + d[1], y + d[2])
    /\ (d[1] # 0 /\ d[2] # 0) =>
           (is_walkable(g, x + d[1], y) /\ is_walkable(g, x, y + d[2]))

get_neighbors(g, x, y) ==
    LET ok == SelectSeq(_DIRECTIONS_8, LAMBDA d : NeighborOk(g, x, y, d))
    IN  [i \in 1..Len(ok) |-> <<x + ok[i][1], y + ok[i][2]>>]

\* OfficeMap.__init__: the grid of EMPTY cells and no named location
NewGrid == [c \in Cells |-> EMPTY]
NoLocations == <<>>

\* set_cell, grid[y, x] = cell_type on the numpy array: an index from
\* -size to -1 counts from the end, any other index outside the array
\* raises IndexError and leaves the grid as it is
set_cell(g, x, y, cell_type) ==
    IF x < -Width \/ x >= Width \/ y < -Height \/ y >= Height
        THEN [grid |-> g, raised |-> "IndexError"]
        ELSE [grid |-> [g EXCEPT ![<<x % Width, y % Height>>] = cell_type],
              raised |-> None]

\* fill_rect, grid[y:y + h, x:x + w] = cell_type for x, y, w, h >= 0: the
\* slice is cut off at the edge of the array
fill_rect(g, x, y, w, h, cell_type) ==
    [c \in Cells |->
        IF x <= c[1] /\ c[1] < x + w /\ y <= c[2] /\ c[2] < y + h
            THEN cell_type ELSE g[c]]

\* draw_room without doors: the four walls, then the inside
draw_room(g, x, y, w, h) ==
    LET top == fill_rect(g, x, y, w, 1, WALL)
        bottom == fill_rect(top, x, y + h - 1, w, 1, WALL)
        left == fill_rect(bottom, x, y, 1, h, WALL)
        right == fill_rect(left, x + w - 1, y, 1, h, WALL)
    IN  IF w > 2 /\ h > 2
            THEN fill_rect(right, x + 1, y + 1, w - 2, h - 2, EMPTY)
            ELSE right

\* NamedLocation(name, position, cell_type)
NamedLocation(name, position, cell_type) ==
    [name |-> name, position |-> position, cell_type |-> cell_type]

\* add_named_location with a slip: a name already there is left alone
add_named_location_FirstWins(locs, name, x, y, cell_type) ==
    locs @@ (name :> NamedLocation(name, <<x, y>>, cell_type))

\* add_named_location: named_locations[name] = NamedLocation(...)
add_named_location(locs, name, x, y, cell_type) ==
    (name :> NamedLocation(name, <<x, y>>, cell_type)) @@ locs

\* get_location with a slip: a missing name gives a location at (0, 0)
get_location_Default(locs, name) ==
    IF name \notin DOMAIN locs
        THEN [raised |-> None, ret |-> NamedLocation(name, <<0, 0>>, "area")]
        ELSE [raised |-> None, ret |-> locs[name]]

\* get_location: the location, or the KeyError raised
get_location(locs, name) ==
    IF name \notin DOMAIN locs
        THEN [raised |-> "KeyError", ret |-> None]
        ELSE [raised |-> None, ret |-> locs[name]]

----------------------------------------------------------------------------
(* navigation.py: a_star *)

ORTH_COST == 1000
DIAG_COST == 1414

\* math.sqrt on integers: floor(sqrt(n)), by bisection.  Each midpoint is
\* bound as the element of a one-element set, so that it is computed once.
RECURSIVE SqrtSearch(_, _, _)
SqrtSearch(n, lo, hi) ==
    IF lo >= hi THEN lo
    ELSE CHOOSE r \in {IF mid * mid <= n THEN SqrtSearch(n, mid, hi)
                                         ELSE SqrtSearch(n, lo, mid - 1) :
                           mid \in {(lo + hi + 1) \div 2}} : TRUE

sqrt(n) == CHOOSE r \in {SqrtSearch(m, 0, 46340) : m \in {n}} : TRUE

\* move_cost with the two prices swapped
move_cost_Swapped(dx, dy) == IF dx # 0 /\ dy # 0 THEN ORTH_COST ELSE DIAG_COST

\* line 67
move_cost(dx, dy) == IF dx # 0 /\ dy # 0 THEN DIAG_COST ELSE ORTH_COST

\* lines 74-77
heuristic(c, goal) ==
    sqrt(((c[1] - goal[1]) * (c[1] - goal[1]) + (c[2] - goal[2]) * (c[2] - goal[2]))
         * ORTH_COST * ORTH_COST)

\* the order of the heap's entries: Python compares the tuples (f, (x, y))
HeapLeq(a, b) ==
    \/ a[1] < b[1]
    \/ /\ a[1] = b[1]
       /\ \/ a[2][1] < b[2][1]
          \/ a[2][1] = b[2][1] /\ a[2][2] <= b[2][2]

\* Variant that takes the greatest entry of the heap instead of the least
\* (line 52), used to test C25.
heappop_Greatest(open) == CHOOSE e \in open : \A o \in open : HeapLeq(o, e)

heappop(open) == CHOOSE e \in open : \A o \in open : HeapLeq(e, o)

NoPath == [found |-> FALSE, path |-> <<>>]

\* lines 56-61: walk came_from back from the goal, then reverse
RECURSIVE Backtrack(_, _)
RECURSIVE Backtrack_DropsStart(_, _)
\* Variant that starts the path empty (line 57), used to test C18.
Backtrack_DropsStart(came, current) ==
    IF current \in DOMAIN came
        THEN Append(Backtrack_DropsStart(came, came[current]), current)
        ELSE <<>>

Backtrack(came, current) ==
    IF current \in DOMAIN came
        THEN Append(Backtrack(came, came[current]), current)
        ELSE <<current>>

\* lines 63-79: the loop over the neighbours of current
RECURSIVE Relax(_, _, _, _, _)
Relax(nbrs, i, current, goal, st) ==
    IF i > Len(nbrs) THEN st
    ELSE
        LET neighbor == nbrs[i]
            tentative_g == st.g_score[current]
                + move_cost(neighbor[1] - current[1], neighbor[2] - current[2])
            better == \/ neighbor \notin DOMAIN st.g_score
                      \/ tentative_g < st.g_score[neighbor]
            f == tentative_g + heuristic(neighbor, goal)
        IN  CHOOSE r \in
                {Relax(nbrs, i + 1, current, goal, next) :
                    next \in {IF better
                                 THEN [open_set |-> st.open_set \cup {<<f, neighbor>>},
                                       came_from |-> (neighbor :> current) @@ st.came_from,
                                       g_score |-> (neighbor :> tentative_g) @@ st.g_score]
                                 ELSE st}} : TRUE

\* lines 51-81: the main loop
RECURSIVE Search(_, _, _)
Search(g, goal, st) ==
    IF st.open_set = {} THEN NoPath
    ELSE
        CHOOSE r \in
            {LET current == top[2]
                 popped == [st EXCEPT !.open_set = st.open_set \ {top}]
             IN  IF current = goal
                     THEN [found |-> TRUE,
                           path |-> Backtrack(st.came_from, current)]
                     ELSE CHOOSE q \in
                              {Search(g, goal, next) :
                                  next \in {Relax(get_neighbors(g, current[1],
                                                                   current[2]),
                                                    1, current, goal, popped)}} :
                              TRUE :
                top \in {heappop(st.open_set)}} : TRUE

\* a_star without the walkability test of the start (line 42)
a_star_AnyStart(g, start, goal) ==
    IF ~_in_bounds(start[1], start[2]) \/ ~is_walkable(g, goal[1], goal[2])
        THEN NoPath
        ELSE Search(g, goal,
                    [open_set |-> {<<0, start>>},
                     came_from |-> <<>>,
                     g_score |-> (start :> 0)])

a_star(g, start, goal) ==
    IF ~is_walkable(g, start[1], start[2]) \/ ~is_walkable(g, goal[1], goal[2])
        THEN NoPath
        ELSE Search(g, goal,
                    [open_set |-> {<<0, start>>},
                     came_from |-> <<>>,
                     g_score |-> (start :> 0)])

----------------------------------------------------------------------------
(* Numbers shared by the robot and the obstacle detector *)

\* a / b rounded toward zero (b > 0)
Quot(a, b) == IF a >= 0 THEN a \div b ELSE -((-a) \div b)

\* int(round(v / unit)): Python rounds a half to the even integer
RoundDiv(v, unit) ==
    LET q == v \div unit
        r == v % unit
    IN  IF 2 * r < unit THEN q
        ELSE IF 2 * r > unit THEN q + 1
        ELSE IF q % 2 = 0 THEN q ELSE q + 1

\* int(round(v)) of a length v in thousandths
round(v) == RoundDiv(v, ORTH_COST)

\* (cos, sin) in thousandths of math.atan2(dy, dx)
Direction(dx, dy) ==
    LET distance == sqrt(dx * dx + dy * dy)
    IN  <<Quot(dx * ORTH_COST, distance), Quot(dy * ORTH_COST, distance)>>


----------------------------------------------------------------------------
(* mock_robot.py: point-to-point movement.  A robot is a record            *)
(* [position, heading, speed, move_target]; positions are in thousandths   *)
(* of a cell, speed in thousandths of a cell per second, heading is the    *)
(* (cos, sin) of the angle the code keeps in degrees.                      *)

DEFAULT_SPEED == 500

\* MockReachyMini.__init__ with its default arguments
NewRobot ==
    [position |-> <<0, 0>>, heading |-> <<ORTH_COST, 0>>,
     speed |-> DEFAULT_SPEED, move_target |-> NoPos]

move_to(rb, x, y) ==
    LET dx == x - rb.position[1]
        dy == y - rb.position[2]
    IN  [rb EXCEPT !.move_target = <<x, y>>,
                   !.heading = IF dx # 0 \/ dy # 0 THEN Direction(dx, dy) ELSE @]

is_moving(rb) == rb.move_target # NoPos

\* Variant that never snaps onto the target: it always moves by the step
\* (lines 186-190 left out), used to test C23.
update_position_Overshoots(rb, dt) ==
    IF rb.move_target = NoPos THEN rb
    ELSE
        LET dx == rb.move_target[1] - rb.position[1]
            dy == rb.move_target[2] - rb.position[2]
            distance == sqrt(dx * dx + dy * dy)
            step == (rb.speed * dt) \div 1000
        IN  IF distance = 0
                THEN [rb EXCEPT !.position = rb.move_target, !.move_target = NoPos]
                ELSE [rb EXCEPT !.position = <<rb.position[1] + Quot(dx * step, distance),
                                               rb.position[2] + Quot(dy * step, distance)>>,
                                !.heading = Direction(dx, dy)]

\* dt in milliseconds
update_position(rb, dt) ==
    IF rb.move_target = NoPos THEN rb
    ELSE
        LET dx == rb.move_target[1] - rb.position[1]
            dy == rb.move_target[2] - rb.position[2]
            distance == sqrt(dx * dx + dy * dy)
            step == (rb.speed * dt) \div 1000
        IN  IF distance <= step
                THEN [rb EXCEPT !.position = rb.move_target, !.move_target = NoPos]
                ELSE [rb EXCEPT !.position = <<rb.position[1] + Quot(dx * step, distance),
                                               rb.position[2] + Quot(dy * step, distance)>>,
                                !.heading = Direction(dx, dy)]

\* what update_position returns: lines 175-176, 190 and 197
update_position_returns(rb, dt) ==
    IF rb.move_target = NoPos THEN FALSE
    ELSE
        LET dx == rb.move_target[1] - rb.position[1]
            dy == rb.move_target[2] - rb.position[2]
            distance == sqrt(dx * dx + dy * dy)
            step == (rb.speed * dt) \div 1000
        IN  ~(distance <= step)

----------------------------------------------------------------------------
(* obstacle_detector.py: MockObstacleDetector, with its default range.     *)
(* Distances are in thousandths of a metre.                                *)

MAX_RANGE == 5000
RAY_STEP == 250
SAFE_DISTANCE == 500

\* lines 21-30: the eight default sensor directions, each as the (cos, sin)
\* of its angle in thousandths
DEFAULT_SENSOR_ANGLES ==
    << <<1000, 0>>, <<707, 707>>, <<0, 1000>>, <<-707, 707>>,
       <<-1000, 0>>, <<-707, -707>>, <<0, -1000>>, <<707, -707>> >>

\* MockObstacleDetector.__init__: line 123 falls back to the default
\* directions when sensor_angles is None or empty; callbacks is the list
\* on_obstacle appends to
MockObstacleDetector(sensor_angles, max_range, safe_distance) ==
    [_sensor_angles |-> IF sensor_angles = None \/ sensor_angles = <<>>
                            THEN DEFAULT_SENSOR_ANGLES
                            ELSE sensor_angles,
     _max_range |-> max_range,
     safe_distance |-> safe_distance,
     callbacks |-> <<>>]

\* MockObstacleDetector.__init__ with its default arguments
NewDetector == MockObstacleDetector(None, MAX_RANGE, SAFE_DISTANCE)

\* line 148: int(max_range / 0.5 * 4)
max_steps(max_range) == (max_range * 4) \div 500

\* lines 154-167: the march, from step i on
RECURSIVE RayMarch(_, _, _, _, _, _, _)
RayMarch(g, start_x, start_y, cos_a, sin_a, max_range, i) ==
    IF i > max_steps(max_range) THEN max_range
    ELSE
        LET gx == RoundDiv(start_x * 1000 + cos_a * RAY_STEP * i, 1000000)
            gy == RoundDiv(start_y * 1000 + sin_a * RAY_STEP * i, 1000000)
        IN  IF ~_in_bounds(gx, gy) THEN (RAY_STEP * i) \div 2
            ELSE IF ~is_walkable(g, gx, gy) THEN (RAY_STEP * i) \div 2
            ELSE RayMarch(g, start_x, start_y, cos_a, sin_a, max_range, i + 1)

_raycast(g, start_x, start_y, cos_a, sin_a, max_range) ==
    RayMarch(g, start_x, start_y, cos_a, sin_a, max_range, 1)

\* (cos, sin) of heading_rad + sensor_angle (line 177)
world_angle(heading, sensor_angle) ==
    <<Quot(heading[1] * sensor_angle[1] - heading[2] * sensor_angle[2], ORTH_COST),
      Quot(heading[2] * sensor_angle[1] + heading[1] * sensor_angle[2], ORTH_COST)>>

\* The outcome of running the listeners: which registrations were invoked,
\* in order, how many failures were logged, and what left the loop.
NoneNotified == [invoked |-> <<>>, logged |-> 0, raised |-> None]

\* Variant whose loop ends at the first listener that raises (lines 80-84),
\* used to test C20.
RECURSIVE _notify_obstacle_StopsAtRaise(_, _, _)
_notify_obstacle_StopsAtRaise(callbacks, i, done) ==
    IF i > Len(callbacks) THEN done
    ELSE
        LET called == [done EXCEPT !.invoked = Append(@, i)]
        IN  IF callbacks[i] = "returns"
                THEN _notify_obstacle_StopsAtRaise(callbacks, i + 1, called)
            ELSE IF callbacks[i] = "raises"
                THEN [called EXCEPT !.logged = @ + 1]
            ELSE [called EXCEPT !.raised = callbacks[i]]

\* lines 78-84: each listener is called in turn; `except Exception` logs a
\* failure and goes on, while an exception outside Exception ("SystemExit",
\* "KeyboardInterrupt") is not caught and leaves the loop.  A listener is
\* named by what its call does.
RECURSIVE _notify_obstacle(_, _, _)
_notify_obstacle(callbacks, i, done) ==
    IF i > Len(callbacks) THEN done
    ELSE
        LET called == [done EXCEPT !.invoked = Append(@, i)]
        IN  IF callbacks[i] = "returns"
                THEN _notify_obstacle(callbacks, i + 1, called)
            ELSE IF callbacks[i] = "raises"
                THEN _notify_obstacle(callbacks, i + 1,
                                      [called EXCEPT !.logged = @ + 1])
            ELSE [called EXCEPT !.raised = callbacks[i]]

\* lines 61-69
on_obstacle(det, callback) == [det EXCEPT !.callbacks = Append(@, callback)]

\* Variant that casts the rays along the sensor angles without adding the
\* heading (line 177), used to test C19.
get_distances_IgnoresHeading(det, g, rb) ==
    LET distances ==
            [k \in 1..Len(det._sensor_angles) |->
                _raycast(g, rb.position[1], rb.position[2],
                         det._sensor_angles[k][1], det._sensor_angles[k][2],
                         det._max_range)]
        told == IF \E k \in 1..Len(distances) : distances[k] < det.safe_distance
                    THEN _notify_obstacle(det.callbacks, 1, NoneNotified)
                    ELSE NoneNotified
    IN  [distances |-> distances, invoked |-> told.invoked,
         logged |-> told.logged, raised |-> told.raised]

\* lines 169-185: one ray per sensor angle, then the listeners when some
\* distance is below safe_distance.  The call returns distances unless
\* raised is not None.
get_distances(det, g, rb) ==
    LET distances ==
            [k \in 1..Len(det._sensor_angles) |->
                LET a == world_angle(rb.heading, det._sensor_angles[k])
                IN  _raycast(g, rb.position[1], rb.position[2], a[1], a[2],
                             det._max_range)]
        told == IF \E k \in 1..Len(distances) : distances[k] < det.safe_distance
                    THEN _notify_obstacle(det.callbacks, 1, NoneNotified)
                    ELSE NoneNotified
    IN  [distances |-> distances, invoked |-> told.invoked,
         logged |-> told.logged, raised |-> told.raised]

\* is_path_clear with a slip: the ray must end beyond the distance
is_path_clear_Strict(det, g, rb, direction, distance) ==
    LET a == world_angle(rb.heading, direction)
    IN  _raycast(g, rb.position[1], rb.position[2], a[1], a[2], det._max_range)
            > distance

\* lines 187-195: one ray along heading + direction, direction given as the
\* (cos, sin) of its angle
is_path_clear(det, g, rb, direction, distance) ==
    LET a == world_angle(rb.heading, direction)
    IN  _raycast(g, rb.position[1], rb.position[2], a[1], a[2], det._max_range)
            >= distance

\* is_path_clear(0.0, distance): the ray along the robot's heading
is_path_clear_ahead(g, rb, distance) ==
    _raycast(g, rb.position[1], rb.position[2], rb.heading[1], rb.heading[2],
             MAX_RANGE)
        >= distance

----------------------------------------------------------------------------
(* navigation.py: Navigator.  A navigator is a record of its fields;       *)
(* obstacle_detector is TRUE when a MockObstacleDetector is attached.      *)
(* replan_cooldown and dt are in milliseconds.                             *)

REPLAN_COOLDOWN == 2000
CLEAR_DISTANCE == 800

\* Navigator.__init__
NewNavigator(detector) ==
    [path |-> <<>>, path_index |-> 0, current_target |-> None,
     on_arrival |-> None, obstacle_detector |-> detector,
     replan_cooldown |-> 0, patrol_schedule |-> <<>>, patrol_index |-> 0]

is_navigating(nv) ==
    nv.path_index < Len(nv.path) \/ nv.current_target # None

current_path(nv) == nv.path

remaining_path(nv) == SubSeq(nv.path, nv.path_index + 1, Len(nv.path))

\* the cell navigate_to plans from: lines 171-172
StartCell(from_pos) ==
    IF from_pos # NoPos
        THEN <<round(from_pos[1]), round(from_pos[2])>>
        ELSE <<0, 0>>

\* navigate_to with a slip: the path is always planned from cell (0, 0)
navigate_to_FromOrigin(nv, g, locs, location_name, from_pos, on_arrival) ==
    IF location_name \notin DOMAIN locs
        THEN [nav |-> nv, ret |-> FALSE, outcome |-> "NotFound"]
    ELSE
        LET found == a_star(g, <<0, 0>>, locs[location_name].position)
        IN  IF ~found.found
                THEN [nav |-> nv, ret |-> FALSE, outcome |-> "NoPath"]
                ELSE [nav |-> [nv EXCEPT !.path = found.path,
                                         !.path_index = 0,
                                         !.current_target = location_name,
                                         !.on_arrival = on_arrival],
                      ret |-> TRUE, outcome |-> "ok"]

\* navigate_to with a slip: the navigation under way is dropped before the
\* name is looked up
navigate_to_StopsFirst(nv, g, locs, location_name, from_pos, on_arrival) ==
    LET stopped == [nv EXCEPT !.path = <<>>, !.path_index = 0,
                              !.current_target = None, !.on_arrival = None]
    IN  IF location_name \notin DOMAIN locs
            THEN [nav |-> stopped, ret |-> FALSE, outcome |-> "NotFound"]
        ELSE
            LET found == a_star(g, StartCell(from_pos), locs[location_name].position)
            IN  IF ~found.found
                    THEN [nav |-> nv, ret |-> FALSE, outcome |-> "NoPath"]
                    ELSE [nav |-> [nv EXCEPT !.path = found.path,
                                             !.path_index = 0,
                                             !.current_target = location_name,
                                             !.on_arrival = on_arrival],
                          ret |-> TRUE, outcome |-> "ok"]

\* navigate_to with a slip: a callback still waiting is not replaced
navigate_to_KeepsCallback(nv, g, locs, location_name, from_pos, on_arrival) ==
    IF location_name \notin DOMAIN locs
        THEN [nav |-> nv, ret |-> FALSE, outcome |-> "NotFound"]
    ELSE
        LET found == a_star(g, StartCell(from_pos), locs[location_name].position)
        IN  IF ~found.found
                THEN [nav |-> nv, ret |-> FALSE, outcome |-> "NoPath"]
                ELSE [nav |-> [nv EXCEPT !.path = found.path,
                                         !.path_index = 0,
                                         !.current_target = location_name,
                                         !.on_arrival = IF @ # None THEN @
                                                        ELSE on_arrival],
                      ret |-> TRUE, outcome |-> "ok"]

\* navigate_to with a slip: a failure to plan drops the navigation under way
navigate_to_IdleOnNoPath(nv, g, locs, location_name, from_pos, on_arrival) ==
    IF location_name \notin DOMAIN locs
        THEN [nav |-> nv, ret |-> FALSE, outcome |-> "NotFound"]
    ELSE
        LET found == a_star(g, StartCell(from_pos), locs[location_name].position)
        IN  IF ~found.found
                THEN [nav |-> [nv EXCEPT !.path = <<>>, !.path_index = 0,
                                         !.current_target = None,
                                         !.on_arrival = None],
                      ret |-> FALSE, outcome |-> "NoPath"]
                ELSE [nav |-> [nv EXCEPT !.path = found.path,
                                         !.path_index = 0,
                                         !.current_target = location_name,
                                         !.on_arrival = on_arrival],
                      ret |-> TRUE, outcome |-> "ok"]

\* navigate_to with a slip: the cursor is not put back to the start
navigate_to_KeepsCursor(nv, g, locs, location_name, from_pos, on_arrival) ==
    IF location_name \notin DOMAIN locs
        THEN [nav |-> nv, ret |-> FALSE, outcome |-> "NotFound"]
    ELSE
        LET found == a_star(g, StartCell(from_pos), locs[location_name].position)
        IN  IF ~found.found
                THEN [nav |-> nv, ret |-> FALSE, outcome |-> "NoPath"]
                ELSE [nav |-> [nv EXCEPT !.path = found.path,
                                         !.current_target = location_name,
                                         !.on_arrival = on_arrival],
                      ret |-> TRUE, outcome |-> "ok"]

\* navigate_to with a slip: the name of the target is not recorded
navigate_to_ForgetsTarget(nv, g, locs, location_name, from_pos, on_arrival) ==
    IF location_name \notin DOMAIN locs
        THEN [nav |-> nv, ret |-> FALSE, outcome |-> "NotFound"]
    ELSE
        LET found == a_star(g, StartCell(from_pos), locs[location_name].position)
        IN  IF ~found.found
                THEN [nav |-> nv, ret |-> FALSE, outcome |-> "NoPath"]
                ELSE [nav |-> [nv EXCEPT !.path = found.path,
                                         !.path_index = 0,
                                         !.on_arrival = on_arrival],
                      ret |-> TRUE, outcome |-> "ok"]

\* navigate_to: the navigator after the call, what the call returns, and
\* why ("NotFound": get_location raised KeyError; "NoPath": a_star failed)
navigate_to(nv, g, locs, location_name, from_pos, on_arrival) ==
    IF location_name \notin DOMAIN locs
        THEN [nav |-> nv, ret |-> FALSE, outcome |-> "NotFound"]
    ELSE
        LET start == StartCell(from_pos)
            goal == locs[location_name].position
            found == a_star(g, start, goal)
        IN  IF ~found.found
                THEN [nav |-> nv, ret |-> FALSE, outcome |-> "NoPath"]
                ELSE [nav |-> [nv EXCEPT !.path = found.path,
                                         !.path_index = 0,
                                         !.current_target = location_name,
                                         !.on_arrival = on_arrival],
                      ret |-> TRUE, outcome |-> "ok"]

\* _try_replan with a slip: the new path is installed, the cursor stays
_try_replan_KeepsCursor(nv, rb, g, locs) ==
    IF nv.current_target = None THEN [nav |-> nv, ret |-> FALSE]
    ELSE IF nv.current_target \notin DOMAIN locs THEN [nav |-> nv, ret |-> FALSE]
    ELSE
        LET start == <<round(rb.position[1]), round(rb.position[2])>>
            goal == locs[nv.current_target].position
            new_path == a_star(g, start, goal)
        IN  IF ~new_path.found THEN [nav |-> nv, ret |-> FALSE]
            ELSE [nav |-> [nv EXCEPT !.path = new_path.path,
                                     !.replan_cooldown = REPLAN_COOLDOWN],
                  ret |-> TRUE]

\* _try_replan with a slip: a failed search for a new path rewinds the cursor
_try_replan_RewindsOnFailure(nv, rb, g, locs) ==
    IF nv.current_target = None THEN [nav |-> nv, ret |-> FALSE]
    ELSE IF nv.current_target \notin DOMAIN locs THEN [nav |-> nv, ret |-> FALSE]
    ELSE
        LET start == <<round(rb.position[1]), round(rb.position[2])>>
            goal == locs[nv.current_target].position
            new_path == a_star(g, start, goal)
        IN  IF ~new_path.found
                THEN [nav |-> [nv EXCEPT !.path_index = 0], ret |-> FALSE]
            ELSE [nav |-> [nv EXCEPT !.path = new_path.path,
                                     !.path_index = 0,
                                     !.replan_cooldown = REPLAN_COOLDOWN],
                  ret |-> TRUE]

\* _try_replan: the navigator after the call and what the call returns
_try_replan(nv, rb, g, locs) ==
    IF nv.current_target = None THEN [nav |-> nv, ret |-> FALSE]
    ELSE IF nv.current_target \notin DOMAIN locs THEN [nav |-> nv, ret |-> FALSE]
    ELSE
        LET start == <<round(rb.position[1]), round(rb.position[2])>>
            goal == locs[nv.current_target].position
            new_path == a_star(g, start, goal)
        IN  IF ~new_path.found THEN [nav |-> nv, ret |-> FALSE]
            ELSE [nav |-> [nv EXCEPT !.path = new_path.path,
                                     !.path_index = 0,
                                     !.replan_cooldown = REPLAN_COOLDOWN],
                  ret |-> TRUE]

\* update, lines 205-207: the cooldown runs down
Cooled(nv, dt) ==
    IF nv.replan_cooldown > 0
        THEN [nv EXCEPT !.replan_cooldown = @ - dt]
        ELSE nv

\* update, lines 210-216: whether this call tries to replan
WantsReplan(nv, rb, g) ==
    /\ nv.obstacle_detector
    /\ nv.replan_cooldown <= 0
    /\ nv.path_index < Len(nv.path)
    /\ ~is_path_clear_ahead(g, rb, CLEAR_DISTANCE)

\* Advance with a slip: the arrival is declared as soon as the last waypoint
\* has been handed to the robot, without waiting for the robot to stop
Advance_ArrivesEarly(nv, rb, dt) ==
    IF nv.path_index >= Len(nv.path)
        THEN [nav |-> [nv EXCEPT !.current_target = None, !.on_arrival = None],
              robot |-> rb,
              fired |-> nv.on_arrival]
    ELSE IF ~is_moving(rb)
        THEN LET next_point == nv.path[nv.path_index + 1]
             IN  [nav |-> [nv EXCEPT !.path_index = @ + 1],
                  robot |-> update_position(
                                move_to(rb, next_point[1] * ORTH_COST,
                                            next_point[2] * ORTH_COST), dt),
                  fired |-> None]
        ELSE [nav |-> nv, robot |-> update_position(rb, dt), fired |-> None]

\* Advance with a slip: the arrival leaves the current target in place
Advance_KeepsTarget(nv, rb, dt) ==
    IF ~is_moving(rb)
        THEN IF nv.path_index < Len(nv.path)
                THEN LET next_point == nv.path[nv.path_index + 1]
                     IN  [nav |-> [nv EXCEPT !.path_index = @ + 1],
                          robot |-> update_position(
                                        move_to(rb, next_point[1] * ORTH_COST,
                                                    next_point[2] * ORTH_COST), dt),
                          fired |-> None]
                ELSE [nav |-> nv, robot |-> rb, fired |-> nv.on_arrival]
        ELSE [nav |-> nv, robot |-> update_position(rb, dt), fired |-> None]

\* Advance with a slip: the next waypoint is handed to the robot whether or
\* not it is in the middle of a move
Advance_CommandsMidMove(nv, rb, dt) ==
    IF nv.path_index < Len(nv.path)
        THEN LET next_point == nv.path[nv.path_index + 1]
             IN  [nav |-> [nv EXCEPT !.path_index = @ + 1],
                  robot |-> update_position(
                                move_to(rb, next_point[1] * ORTH_COST,
                                            next_point[2] * ORTH_COST), dt),
                  fired |-> None]
    ELSE IF ~is_moving(rb)
        THEN [nav |-> [nv EXCEPT !.current_target = None, !.on_arrival = None],
              robot |-> rb,
              fired |-> nv.on_arrival]
    ELSE [nav |-> nv, robot |-> update_position(rb, dt), fired |-> None]

\* update, lines 219-233: the next waypoint, the arrival, the movement.
\* fired is the callback the call invoked, or None.
Advance(nv, rb, dt) ==
    IF ~is_moving(rb)
        THEN IF nv.path_index < Len(nv.path)
                THEN LET next_point == nv.path[nv.path_index + 1]
                     IN  [nav |-> [nv EXCEPT !.path_index = @ + 1],
                          robot |-> update_position(
                                        move_to(rb, next_point[1] * ORTH_COST,
                                                    next_point[2] * ORTH_COST), dt),
                          fired |-> None]
                ELSE [nav |-> [nv EXCEPT !.current_target = None,
                                         !.on_arrival = None],
                      robot |-> rb,
                      fired |-> nv.on_arrival]
        ELSE [nav |-> nv, robot |-> update_position(rb, dt), fired |-> None]

\* update: the navigator and the robot after the call, the callback it
\* invoked, and what became of a replanning attempt ("none" when it made none)
update(nv, rb, g, locs, dt) ==
    IF ~is_navigating(nv)
        THEN [nav |-> nv, robot |-> rb, fired |-> None, replan |-> "none"]
    ELSE
        LET cooled == Cooled(nv, dt)
            wants == WantsReplan(cooled, rb, g)
        IN  CHOOSE r \in
                {CHOOSE q \in
                     {[nav |-> adv.nav, robot |-> adv.robot,
                       fired |-> adv.fired,
                       replan |-> IF ~wants THEN "none"
                                  ELSE IF tried.ret THEN "ok" ELSE "failed"] :
                         adv \in {Advance(tried.nav, rb, dt)}} : TRUE :
                    tried \in {IF wants THEN _try_replan(cooled, rb, g, locs)
                                        ELSE [nav |-> cooled, ret |-> FALSE]}} :
                TRUE

\* sorted(schedule, key=time_minutes): Python's sort is stable, so an entry
\* goes after the entries already placed whose time is not later
RECURSIVE InsertByTime(_, _)
InsertByTime(e, placed) ==
    IF placed = <<>> THEN <<e>>
    ELSE IF placed[Len(placed)].time_minutes <= e.time_minutes
        THEN Append(placed, e)
        ELSE Append(InsertByTime(e, SubSeq(placed, 1, Len(placed) - 1)),
                    placed[Len(placed)])

RECURSIVE sorted(_)
sorted(schedule) ==
    IF schedule = <<>> THEN <<>>
    ELSE InsertByTime(schedule[Len(schedule)],
                      sorted(SubSeq(schedule, 1, Len(schedule) - 1)))

set_patrol_schedule(nv, schedule) ==
    [nv EXCEPT !.patrol_schedule = sorted(schedule), !.patrol_index = 0]

\* check_patrol with a slip: an entry whose navigate_to failed is kept for
\* the next call
check_patrol_RetriesFailed(nv, rb, g, locs, current_minutes) ==
    IF nv.patrol_index >= Len(nv.patrol_schedule)
        THEN [nav |-> nv, ret |-> <<>>, outcome |-> "none"]
    ELSE
        LET schedule == nv.patrol_schedule[nv.patrol_index + 1]
            called == navigate_to(nv, g, locs, schedule.location_name,
                                  rb.position, None)
        IN  IF current_minutes >= schedule.time_minutes
                THEN [nav |-> IF called.ret
                                  THEN [called.nav EXCEPT !.patrol_index = @ + 1]
                                  ELSE called.nav,
                      ret |-> <<schedule>>,
                      outcome |-> called.outcome]
                ELSE [nav |-> nv, ret |-> <<>>, outcome |-> "none"]

\* check_patrol with a slip: the index is not advanced
check_patrol_Retriggers(nv, rb, g, locs, current_minutes) ==
    IF nv.patrol_index >= Len(nv.patrol_schedule)
        THEN [nav |-> nv, ret |-> <<>>, outcome |-> "none"]
    ELSE
        LET schedule == nv.patrol_schedule[nv.patrol_index + 1]
            called == navigate_to(nv, g, locs, schedule.location_name,
                                  rb.position, None)
        IN  IF current_minutes >= schedule.time_minutes
                THEN [nav |-> called.nav, ret |-> <<schedule>>,
                      outcome |-> called.outcome]
                ELSE [nav |-> nv, ret |-> <<>>, outcome |-> "none"]

\* check_patrol: the navigator after the call, what the call returns
\* (<<entry>> for the entry it triggered, <<>> for None), and the outcome of
\* the navigate_to it made ("none" when it made none)
check_patrol(nv, rb, g, locs, current_minutes) ==
    IF nv.patrol_index >= Len(nv.patrol_schedule)
        THEN [nav |-> nv, ret |-> <<>>, outcome |-> "none"]
    ELSE
        LET schedule == nv.patrol_schedule[nv.patrol_index + 1]
            called == navigate_to([nv EXCEPT !.patrol_index = @ + 1],
                                  g, locs, schedule.location_name,
                                  rb.position, None)
        IN  IF current_minutes >= schedule.time_minutes
                THEN [nav |-> called.nav, ret |-> <<schedule>>,
                      outcome |-> called.outcome]
                ELSE [nav |-> nv, ret |-> <<>>, outcome |-> "none"]

----------------------------------------------------------------------------
(* The office and the calls made on it *)

\* the named locations the office is built with, and a name it does not have
OfficeLocations ==
    ("A" :> [name |-> "A", position |-> <<Width - 1, Height - 1>>, cell_type |-> "room"])
    @@ ("B" :> [name |-> "B", position |-> <<0, Height - 1>>, cell_type |-> "area"])

CallNames == {"A", "B", "X"}

Callbacks == {None, "cb", "cb2"}

\* the dt of an update call, in milliseconds
DtSet == {1000, 2000}

\* the schedules given to set_patrol_schedule, and the times given to check_patrol
PatrolEntries == [time_minutes : {10, 20}, location_name : {"A", "X"}]

Schedules == UNION {[1..n -> PatrolEntries] : n \in 0..MaxSched}

CheckTimes == {5, 15, 25}

Grids ==
    {g \in [Cells -> {EMPTY, WALL}] :
        Cardinality({c \in Cells : g[c] = WALL}) <= MaxBlocked}

Points == Cells \cup {<<-1, 0>>, <<0, -1>>, <<Width, 0>>, <<0, Height>>}

NoCall ==
    [op |-> "none", name |-> None, from_pos |-> NoPos, minutes |-> 0,
     ret |-> FALSE, outcome |-> "none", fired |-> None, replan |-> "none"]

NoneUsed ==
    [navigate_to |-> 0, set_cell |-> 0, map_edit |-> 0, move_to |-> 0, load |-> 0]

NoPatrol == [schedule |-> <<>>, triggered |-> <<>>]

NoCallback == [given |-> None, count |-> 0, dropped |-> None]

\* nothing has been called yet
NothingCalled ==
    /\ last = NoCall
    /\ patrol_log = NoPatrol
    /\ used = NoneUsed
    /\ callback_log = NoCallback
    /\ sensor = NewDetector

\* the parts that are not constructed
OthersIdle ==
    /\ search = None
    /\ web = None
    /\ scenario = None
    /\ proactive = None
    /\ persons = None
    /\ omap = None
    /\ chassis = None

\* the path finder has not been called on its own
AStarIdle ==
    /\ as_start = <<0, 0>>
    /\ as_pc = "idle"
    /\ as_result = [goal \in Points |-> NoPath]

\* the office after construction: an open grid with its named locations, a
\* navigator with or without an obstacle detector, the robot at (0, 0)
Init ==
    /\ grid = [c \in Cells |-> EMPTY]
    /\ named_locations = OfficeLocations
    /\ nav \in {NewNavigator(d) : d \in BOOLEAN}
    /\ robot = NewRobot
    /\ NothingCalled
    /\ AStarIdle
    /\ OthersIdle

\* OfficeMap.set_cell: a wall is put up or taken down
SetCell(c, t) ==
    /\ used.set_cell < MaxEdits
    /\ grid[c] # t
    /\ grid' = [grid EXCEPT ![c] = t]
    /\ used' = [used EXCEPT !.set_cell = @ + 1]
    /\ last' = [NoCall EXCEPT !.op = "set_cell"]
    /\ UNCHANGED <<named_locations, nav, robot, patrol_log, callback_log,
                   sensor, as_start, as_pc, as_result, others>>

NavigateTo(name, from_pos, cb) ==
    LET r == navigate_to(nav, grid, named_locations, name, from_pos, cb)
    IN  /\ used.navigate_to < MaxNavigate
        /\ used' = [used EXCEPT !.navigate_to = @ + 1]
        /\ nav' = r.nav
        /\ callback_log' = IF r.ret THEN [given |-> cb, count |-> 0,
                                          dropped |-> nav.on_arrival]
                                    ELSE callback_log
        /\ last' = [NoCall EXCEPT !.op = "navigate_to", !.name = name,
                                  !.from_pos = from_pos,
                                  !.ret = r.ret, !.outcome = r.outcome]
        /\ UNCHANGED <<grid, named_locations, robot, patrol_log,
                       sensor, as_start, as_pc, as_result, others>>

Update(dt) ==
    \E r \in {update(nav, robot, grid, named_locations, dt)} :
        /\ nav' = r.nav
        /\ robot' = r.robot
        /\ callback_log' = IF r.fired # None
                               THEN [callback_log EXCEPT !.count = @ + 1]
                               ELSE callback_log
        /\ last' = [NoCall EXCEPT !.op = "update", !.fired = r.fired,
                                  !.replan = r.replan]
        /\ UNCHANGED <<grid, named_locations, patrol_log, used,
                       sensor, as_start, as_pc, as_result, others>>

SetPatrolSchedule(schedule) ==
    /\ nav' = set_patrol_schedule(nav, schedule)
    /\ patrol_log' = [schedule |-> schedule, triggered |-> <<>>]
    /\ last' = [NoCall EXCEPT !.op = "set_patrol_schedule"]
    /\ UNCHANGED <<grid, named_locations, robot, used, callback_log,
                   sensor, as_start, as_pc, as_result, others>>

CheckPatrol(current_minutes) ==
    LET r == check_patrol(nav, robot, grid, named_locations, current_minutes)
    IN  /\ nav' = r.nav
        /\ patrol_log' = [patrol_log EXCEPT !.triggered = @ \o r.ret]
        /\ callback_log' = IF r.outcome = "ok"
                               THEN [NoCallback EXCEPT !.dropped = nav.on_arrival]
                               ELSE callback_log
        /\ last' = [NoCall EXCEPT !.op = "check_patrol",
                                  !.minutes = current_minutes,
                                  !.ret = (r.ret # <<>>),
                                  !.outcome = r.outcome]
        /\ UNCHANGED <<grid, named_locations, robot, used,
                       sensor, as_start, as_pc, as_result, others>>

Next ==
    \/ \E c \in Cells, t \in {EMPTY, WALL} : SetCell(c, t)
    \/ \E name \in CallNames, from_pos \in {NoPos, robot.position}, cb \in Callbacks :
           NavigateTo(name, from_pos, cb)
    \/ \E dt \in DtSet : Update(dt)

Spec == Init /\ [][Next]_vars

----------------------------------------------------------------------------
(* One navigation at a time on a map that no longer changes: the office    *)
(* is any grid with at most MaxBlocked walls, the navigator has no         *)
(* obstacle detector, navigate_to is called only while the navigator is    *)
(* idle, and the simulation loop calls update again and again.             *)

InitRun ==
    /\ grid \in Grids
    /\ named_locations = OfficeLocations
    /\ nav = NewNavigator(FALSE)
    /\ robot = NewRobot
    /\ NothingCalled
    /\ AStarIdle
    /\ OthersIdle

NavigateWhenIdle ==
    /\ ~is_navigating(nav)
    /\ \E name \in CallNames, from_pos \in {NoPos, robot.position}, cb \in Callbacks :
           NavigateTo(name, from_pos, cb)

UpdateSome == \E dt \in DtSet : Update(dt)

NextRun == NavigateWhenIdle \/ UpdateSome

SpecRun == InitRun /\ [][NextRun]_vars /\ WF_vars(UpdateSome)

\* the same with an obstacle detector attached to the navigator
InitGuarded ==
    /\ grid \in Grids
    /\ named_locations = OfficeLocations
    /\ nav = NewNavigator(TRUE)
    /\ robot = NewRobot
    /\ NothingCalled
    /\ AStarIdle
    /\ OthersIdle

\* navigate_to is called from the robot's own position, for a location of
\* the office, while the navigator is idle
NavigateFromHere ==
    /\ ~is_navigating(nav)
    /\ \E name \in DOMAIN OfficeLocations : NavigateTo(name, robot.position, None)

NextGuarded == NavigateFromHere \/ UpdateSome

SpecGuarded == InitGuarded /\ [][NextGuarded]_vars /\ WF_vars(UpdateSome)

----------------------------------------------------------------------------
(* Chained navigation: an arrival callback that itself calls navigate_to.  *)
(* update (navigation.py lines 224-230) sets _current_target = None, calls *)
(* the callback, and sets _on_arrival = None after the callback returned.  *)

\* the callbacks that navigate on: invoked on arrival, "goA" calls
\* navigate_to("A", robot.position, "cb2") and so on; "goX" names no location
ChainedCallbacks ==
    ("goA" :> [name |-> "A", on_arrival |-> "cb2"])
    @@ ("goB" :> [name |-> "B", on_arrival |-> "cb"])
    @@ ("goX" :> [name |-> "X", on_arrival |-> "cb"])

\* update when the callbacks are run: the chained navigate_to acts on the
\* navigator as the arrival branch has left it at the moment of the call
\* (target cleared, callback not yet cleared), and _on_arrival = None follows
update_chained(nv, rb, g, locs, dt) ==
    LET r == update(nv, rb, g, locs, dt)
    IN  IF r.fired \notin DOMAIN ChainedCallbacks
            THEN [nav |-> r.nav, robot |-> r.robot, fired |-> r.fired,
                  replan |-> r.replan, name |-> None, outcome |-> "none"]
            ELSE LET c == ChainedCallbacks[r.fired]
                     called == navigate_to([r.nav EXCEPT !.on_arrival = r.fired],
                                           g, locs, c.name, r.robot.position,
                                           c.on_arrival)
                 IN  [nav |-> [called.nav EXCEPT !.on_arrival = None],
                      robot |-> r.robot, fired |-> r.fired,
                      replan |-> r.replan, name |-> c.name,
                      outcome |-> called.outcome]

InitChain ==
    /\ grid \in Grids
    /\ named_locations = OfficeLocations
    /\ nav = NewNavigator(FALSE)
    /\ robot = NewRobot
    /\ NothingCalled
    /\ AStarIdle
    /\ OthersIdle

\* navigate_to from the robot's position, with a plain or a chaining callback
NavigateChained ==
    /\ ~is_navigating(nav)
    /\ \E name \in DOMAIN OfficeLocations,
          cb \in {"cb"} \cup DOMAIN ChainedCallbacks :
           NavigateTo(name, robot.position, cb)

UpdateChained(dt) ==
    \E r \in {update_chained(nav, robot, grid, named_locations, dt)} :
        /\ nav' = r.nav
        /\ robot' = r.robot
        /\ callback_log' = IF r.fired # None
                               THEN [callback_log EXCEPT !.count = @ + 1]
                               ELSE callback_log
        /\ last' = [NoCall EXCEPT !.op = "update", !.fired = r.fired,
                                  !.replan = r.replan, !.name = r.name,
                                  !.outcome = r.outcome]
        /\ UNCHANGED <<grid, named_locations, patrol_log, used,
                       sensor, as_start, as_pc, as_result, others>>

NextChain == NavigateChained \/ \E dt \in DtSet : UpdateChained(dt)

SpecChain == InitChain /\ [][NextChain]_vars

\* a static map, with or without an obstacle detector: navigate_to is called
\* at any moment, also in the middle of a move, always from the robot's
\* position
InitStatic ==
    /\ grid \in Grids
    /\ named_locations = OfficeLocations
    /\ nav \in {NewNavigator(d) : d \in BOOLEAN}
    /\ robot = NewRobot
    /\ NothingCalled
    /\ AStarIdle
    /\ OthersIdle

NavigateFromPosition ==
    \E name \in CallNames : NavigateTo(name, robot.position, None)

NextStatic == NavigateFromPosition \/ UpdateSome

SpecStatic == InitStatic /\ [][NextStatic]_vars

----------------------------------------------------------------------------
(* The patrol: schedules are set, check_patrol is called with any time,    *)
(* and update moves the robot along the paths the patrol installs.         *)

SetSomeSchedule == \E schedule \in Schedules : SetPatrolSchedule(schedule)

CheckPatrolSome == \E current_minutes \in CheckTimes : CheckPatrol(current_minutes)

NextPatrol == SetSomeSchedule \/ CheckPatrolSome \/ UpdateSome

SpecPatrol == Init /\ [][NextPatrol]_vars

\* navigate_to, update with its replanning (a detector is attached) and the
\* patrol, in any order, on the open map and on the map where location "A"
\* is walled up
InitNavigator ==
    /\ grid \in {NewGrid,
                 [NewGrid EXCEPT ![OfficeLocations["A"].position] = WALL]}
    /\ named_locations = OfficeLocations
    /\ nav = NewNavigator(TRUE)
    /\ robot = NewRobot
    /\ NothingCalled
    /\ AStarIdle
    /\ OthersIdle

NavigateToB == NavigateTo("B", robot.position, None)

\* full schedules that name the unknown location and a known one in turn
SetFullSchedule ==
    \E schedule \in {s \in Schedules :
                        /\ Len(s) = MaxSched
                        /\ \A i \in DOMAIN s :
                               s[i].location_name = IF i % 2 = 1 THEN "X"
                                                                ELSE "A"} :
        SetPatrolSchedule(schedule)

NextNavigator ==
    NavigateToB \/ UpdateSome \/ SetFullSchedule \/ CheckPatrolSome

SpecNavigator == InitNavigator /\ [][NextNavigator]_vars

----------------------------------------------------------------------------
(* The path finder on its own: every grid with at most MaxBlocked walls,    *)
(* every start in the grid or just outside it; one step calls a_star from  *)
(* that start to every goal in the grid or just outside it.                *)

InitAStar ==
    /\ grid \in Grids
    /\ named_locations = OfficeLocations
    /\ nav = NewNavigator(FALSE)
    /\ robot = NewRobot
    /\ NothingCalled
    /\ as_start \in Points
    /\ as_pc = "pending"
    /\ as_result = [goal \in Points |-> NoPath]
    /\ OthersIdle

CallAStar ==
    /\ as_pc = "pending"
    /\ as_pc' = "done"
    /\ as_result' = [goal \in Points |-> a_star(grid, as_start, goal)]
    /\ UNCHANGED <<grid, named_locations, nav, robot, last, patrol_log, used,
                   callback_log, sensor, as_start, others>>

NextAStar == CallAStar

SpecAStar == InitAStar /\ [][NextAStar]_vars

\* Walls go up after the calls and a_star is called again from the same
\* start: last.before keeps the results on the grid as it first was.
WallAndCallAStar(c) ==
    /\ as_pc = "done"
    /\ used.set_cell < MaxEdits
    /\ is_walkable(grid, c[1], c[2])
    /\ \E g \in {set_cell(grid, c[1], c[2], WALL).grid} :
           /\ grid' = g
           /\ as_result' = [goal \in Points |-> a_star(g, as_start, goal)]
    /\ last' = [op |-> "a_star",
                before |-> IF last.op = "a_star" THEN last.before ELSE as_result]
    /\ used' = [used EXCEPT !.set_cell = @ + 1]
    /\ UNCHANGED <<named_locations, nav, robot, patrol_log, callback_log,
                   sensor, as_start, as_pc, others>>

NextWalls ==
    \/ CallAStar
    \/ \E c \in Cells : WallAndCallAStar(c)

SpecWalls == InitAStar /\ [][NextWalls]_vars

----------------------------------------------------------------------------
(* a_star taken one iteration of its while loop at a time.  search is the  *)
(* call: its arguments, where it is ("call", "loop", "done"), the heap and *)
(* the dictionaries, what it returned, and how many pushes it has made.    *)

NoSearch == [open_set |-> {}, came_from |-> <<>>, g_score |-> <<>>]

\* lines 42-49: the walkability test and the first push
Enter(g, start, goal) ==
    IF ~is_walkable(g, start[1], start[2]) \/ ~is_walkable(g, goal[1], goal[2])
        THEN [pc |-> "done", st |-> NoSearch, result |-> NoPath]
        ELSE [pc |-> "loop",
              st |-> [open_set |-> {<<0, start>>},
                      came_from |-> <<>>,
                      g_score |-> (start :> 0)],
              result |-> NoPath]

\* Variant whose iteration reads the top of the heap without removing it
\* (line 52), used to test C24.
Iterate_KeepsTop(g, goal, st) ==
    IF st.open_set = {} THEN [pc |-> "done", st |-> st, result |-> NoPath]
    ELSE
        LET top == heappop(st.open_set)
            current == top[2]
        IN  IF current = goal
                THEN [pc |-> "done", st |-> st,
                      result |-> [found |-> TRUE,
                                  path |-> Backtrack(st.came_from, current)]]
                ELSE [pc |-> "loop",
                      st |-> Relax(get_neighbors(g, current[1], current[2]),
                                   1, current, goal, st),
                      result |-> NoPath]

\* lines 51-81: the test of the while loop and one iteration, or the return
\* after the loop
Iterate(g, goal, st) ==
    IF st.open_set = {} THEN [pc |-> "done", st |-> st, result |-> NoPath]
    ELSE
        LET top == heappop(st.open_set)
            current == top[2]
            popped == [st EXCEPT !.open_set = st.open_set \ {top}]
        IN  IF current = goal
                THEN [pc |-> "done", st |-> popped,
                      result |-> [found |-> TRUE,
                                  path |-> Backtrack(st.came_from, current)]]
                ELSE [pc |-> "loop",
                      st |-> Relax(get_neighbors(g, current[1], current[2]),
                                   1, current, goal, popped),
                      result |-> NoPath]

InitSearch ==
    /\ grid \in Grids
    /\ named_locations = OfficeLocations
    /\ nav = NewNavigator(FALSE)
    /\ robot = NewRobot
    /\ NothingCalled
    /\ AStarIdle
    /\ search \in {[start |-> start, goal |-> goal, pc |-> "call",
                    st |-> NoSearch, result |-> NoPath, pushed |-> 0] :
                       start \in Points, goal \in Points}
    /\ web = None
    /\ scenario = None
    /\ proactive = None
    /\ persons = None
    /\ omap = None
    /\ chassis = None

SearchFrame ==
    UNCHANGED <<grid, named_locations, nav, robot, last, patrol_log, used,
                callback_log, sensor, as_start, as_pc, as_result,
                web, scenario, proactive, persons,
                omap, chassis>>

SearchEnter ==
    /\ search.pc = "call"
    /\ \E r \in {Enter(grid, search.start, search.goal)} :
           search' = [search EXCEPT !.pc = r.pc, !.st = r.st, !.result = r.result,
                                    !.pushed = Cardinality(r.st.open_set)]
    /\ SearchFrame

SearchIterate ==
    /\ search.pc = "loop"
    /\ \E r \in {Iterate(grid, search.goal, search.st)} :
           search' = [search EXCEPT
                         !.pc = r.pc, !.st = r.st, !.result = r.result,
                         !.pushed = @ + Cardinality(r.st.open_set \ search.st.open_set)]
    /\ SearchFrame

NextSearch ==
    \/ SearchEnter
    \/ SearchIterate

\* the call runs on: nothing suspends it
SpecSearch == InitSearch /\ [][NextSearch]_vars /\ WF_vars(NextSearch)

----------------------------------------------------------------------------
(* office_map.py: saving and loading.  The JSON document is a record; its  *)
(* grid is the list of rows grid.tolist() gives, row y + 1 holding the     *)
(* cells (0, y) .. (width - 1, y).                                         *)

\* NamedLocation.to_dict
to_dict(loc) ==
    [name |-> loc.name, position |-> loc.position, cell_type |-> loc.cell_type]

\* NamedLocation.from_dict
from_dict(data) == NamedLocation(data.name, data.position, data.cell_type)

\* save_to_json: the document written
save_to_json(g, locs) ==
    [width |-> Width,
     height |-> Height,
     grid |-> [row \in 1..Height |-> [col \in 1..Width |-> g[<<col - 1, row - 1>>]]],
     named_locations |-> [k \in DOMAIN locs |-> to_dict(locs[k])]]

\* load_from_json with a slip: rows and columns are exchanged
load_from_json_Transposed(data) ==
    [width |-> data.width,
     height |-> data.height,
     grid |-> [c \in (0..(data.width - 1)) \X (0..(data.height - 1)) |->
                  data.grid[c[1] + 1][c[2] + 1]],
     named_locations |-> [k \in DOMAIN data.named_locations |->
                             from_dict(data.named_locations[k])]]

\* load_from_json: the map read from the document
load_from_json(data) ==
    [width |-> data.width,
     height |-> data.height,
     grid |-> [c \in (0..(data.width - 1)) \X (0..(data.height - 1)) |->
                  data.grid[c[2] + 1][c[1] + 1]],
     named_locations |-> [k \in DOMAIN data.named_locations |->
                             from_dict(data.named_locations[k])]]

----------------------------------------------------------------------------
(* The map on its own: a new map is edited by at most MaxMapEdits calls of *)
(* set_cell, fill_rect, draw_room and add_named_location, and queried.     *)

\* the coordinates given to the queries: the grid and a ring around it
QueryPoints == ((-1)..Width) \X ((-1)..Height)

\* the coordinates given to set_cell: the grid, and one index that counts
\* from the end and one outside the array
EditPoints == Cells \cup {<<-1, 0>>, <<Width, 0>>}

\* the rectangles given to fill_rect and draw_room
RectCorners == {0, 1} \X {0, 1}
RectSizes == {1, 2, Width} \X {1, 2, Height}

\* the names, positions and categories given to add_named_location
LocationNames == {"A", "B", ""}
LocationPoints == {<<0, 0>>, <<Width - 1, Height - 1>>, <<Width, 0>>}
LocationTags == {"room", "area"}

\* the names given to get_location
LookupNames == LocationNames \cup {"X"}

InitMap ==
    /\ grid = NewGrid
    /\ named_locations = NoLocations
    /\ nav = NewNavigator(FALSE)
    /\ robot = NewRobot
    /\ NothingCalled
    /\ AStarIdle
    /\ OthersIdle

MapEdited ==
    /\ used.map_edit < MaxMapEdits
    /\ used' = [used EXCEPT !.map_edit = @ + 1]
    /\ UNCHANGED <<nav, robot, patrol_log, callback_log, sensor,
                   as_start, as_pc, as_result, others>>

MapQueried ==
    UNCHANGED <<grid, named_locations, nav, robot, patrol_log, used,
                callback_log, sensor, as_start, as_pc, as_result, others>>

MapSetCell(x, y, cell_type) ==
    LET r == set_cell(grid, x, y, cell_type)
    IN  /\ grid' = r.grid
        /\ last' = [op |-> "set_cell", raised |-> r.raised]
        /\ UNCHANGED named_locations
        /\ MapEdited

MapFillRect(x, y, w, h, cell_type) ==
    /\ grid' = fill_rect(grid, x, y, w, h, cell_type)
    /\ last' = [op |-> "fill_rect"]
    /\ UNCHANGED named_locations
    /\ MapEdited

MapDrawRoom(x, y, w, h) ==
    /\ grid' = draw_room(grid, x, y, w, h)
    /\ last' = [op |-> "draw_room"]
    /\ UNCHANGED named_locations
    /\ MapEdited

AddNamedLocation(name, x, y, cell_type) ==
    /\ named_locations' = add_named_location(named_locations, name, x, y, cell_type)
    /\ last' = [op |-> "add_named_location", name |-> name,
                position |-> <<x, y>>, cell_type |-> cell_type,
                previous |-> get_location(named_locations, name)]
    /\ UNCHANGED grid
    /\ MapEdited

GetLocation(name) ==
    LET r == get_location(named_locations, name)
    IN  /\ last' = [op |-> "get_location", name |-> name,
                    raised |-> r.raised, ret |-> r.ret]
        /\ MapQueried

IsWalkable ==
    /\ last' = [op |-> "is_walkable",
                ret |-> {p \in QueryPoints : is_walkable(grid, p[1], p[2])}]
    /\ MapQueried

GetNeighbors ==
    /\ last' = [op |-> "get_neighbors",
                ret |-> [p \in QueryPoints |-> get_neighbors(grid, p[1], p[2])]]
    /\ MapQueried

SaveAndLoad ==
    /\ last' = [op |-> "load_from_json",
                ret |-> load_from_json(save_to_json(grid, named_locations))]
    /\ MapQueried

NextMap ==
    \/ \E p \in EditPoints, t \in CellTypes : MapSetCell(p[1], p[2], t)
    \/ \E p \in RectCorners, d \in RectSizes, t \in {WALL, DESK} :
           MapFillRect(p[1], p[2], d[1], d[2], t)
    \/ \E d \in RectSizes : MapDrawRoom(0, 0, d[1], d[2])
    \/ \E name \in LocationNames, p \in LocationPoints, t \in LocationTags :
           AddNamedLocation(name, p[1], p[2], t)
    \/ \E name \in LookupNames : GetLocation(name)
    \/ IsWalkable
    \/ GetNeighbors
    \/ SaveAndLoad

SpecMap == InitMap /\ [][NextMap]_vars

----------------------------------------------------------------------------
(* office_map.py: a map read from a JSON document whose grid array need    *)
(* not have the declared width and height.  The loaded map keeps the array *)
(* as numpy holds it: a list of rows.                                      *)

\* the arrays of rows by cols cells with at most MaxBlocked walls
Arrays(rows, cols) ==
    {a \in [1..rows -> [1..cols -> {EMPTY, WALL}]] :
        Cardinality({c \in (1..rows) \X (1..cols) : a[c[1]][c[2]] = WALL})
            <= MaxBlocked}

\* the JSON documents: declared sizes and array shapes up to the grid's
Documents ==
    {[width |-> w, height |-> h, grid |-> a, named_locations |-> NoLocations] :
        w \in 1..Width, h \in 1..Height,
        a \in UNION {Arrays(rows, cols) : rows \in 1..Height, cols \in 1..Width}}

\* load_from_json: cls(width, height), then the grid attribute is replaced
\* by np.array(data["grid"]) whatever its shape
load_array(data) ==
    [width |-> data.width, height |-> data.height, grid |-> data.grid,
     named_locations |-> [k \in DOMAIN data.named_locations |->
                             from_dict(data.named_locations[k])]]

\* is_walkable on a loaded map: the bounds test uses width and height, and
\* grid[y, x] raises IndexError when the array has no such element.  The
\* outcome is "True", "False" or the exception raised.
array_is_walkable(m, x, y) ==
    IF ~(0 <= x /\ x < m.width /\ 0 <= y /\ y < m.height) THEN "False"
    ELSE IF y + 1 > Len(m.grid) \/ x + 1 > Len(m.grid[1]) THEN "IndexError"
    ELSE IF m.grid[y + 1][x + 1] \in _WALKABLE THEN "True"
    ELSE "False"

InitLoad ==
    /\ grid = NewGrid
    /\ named_locations = NoLocations
    /\ nav = NewNavigator(FALSE)
    /\ robot = NewRobot
    /\ last = [op |-> "load_from_json", x |-> 0, y |-> 0, ret |-> None]
    /\ patrol_log = NoPatrol
    /\ used = NoneUsed
    /\ callback_log = NoCallback
    /\ sensor = NewDetector
    /\ AStarIdle
    /\ search = None
    /\ web = None
    /\ scenario = None
    /\ proactive = None
    /\ persons = None
    /\ omap \in {load_array(data) : data \in Documents}
    /\ chassis = None

LoadedIsWalkable(x, y) ==
    /\ last' = [op |-> "is_walkable", x |-> x, y |-> y,
                ret |-> array_is_walkable(omap, x, y)]
    /\ UNCHANGED <<grid, named_locations, nav, robot, patrol_log, used,
                   callback_log, sensor, as_start, as_pc, as_result, others>>

NextLoad == \E x \in (-1)..Width, y \in (-1)..Height : LoadedIsWalkable(x, y)

SpecLoad == InitLoad /\ [][NextLoad]_vars

----------------------------------------------------------------------------
(* The range sensor on its own: a MockObstacleDetector built over a grid   *)
(* with up to MaxBlocked walls, for a robot standing at one of a few       *)
(* poses; listeners are registered and the sensor is polled.               *)

\* the sensor_angles given to MockObstacleDetector: the default, an empty
\* list, and a list of two directions of its own
SensorAngleSets == {None, <<>>, << <<0, 1000>>, <<1000, 0>> >>}

\* the max_range given to MockObstacleDetector: the default and 0.75 m
MaxRanges == {MAX_RANGE, 750}

\* where the robot stands and where it looks (0, 90 and 180 degrees)
RobotPositions == {<<0, 0>>, <<1000, 1000>>, <<1250, 750>>}
RobotHeadings == {<<1000, 0>>, <<0, 1000>>, <<-1000, 0>>}

\* what a registered listener does when called: return, raise an exception
\* derived from Exception, or raise SystemExit
Listeners == {"returns", "raises", "SystemExit"}

InitSensor ==
    /\ grid \in Grids
    /\ named_locations = OfficeLocations
    /\ nav = NewNavigator(TRUE)
    /\ robot \in {[NewRobot EXCEPT !.position = p, !.heading = h] :
                    p \in RobotPositions, h \in RobotHeadings}
    /\ sensor \in {MockObstacleDetector(angles, max_range, SAFE_DISTANCE) :
                     angles \in SensorAngleSets, max_range \in MaxRanges}
    /\ last = NoCall
    /\ patrol_log = NoPatrol
    /\ used = NoneUsed
    /\ callback_log = NoCallback
    /\ AStarIdle
    /\ OthersIdle

OnObstacle(callback) ==
    /\ Len(sensor.callbacks) < MaxListeners
    /\ sensor' = on_obstacle(sensor, callback)
    /\ last' = [op |-> "on_obstacle", callback |-> callback]
    /\ UNCHANGED <<grid, named_locations, nav, robot, patrol_log, used,
                   callback_log, as_start, as_pc, as_result, others>>

GetDistances ==
    /\ \E r \in {get_distances(sensor, grid, robot)} :
           last' = [op |-> "get_distances",
                    distances |-> r.distances,
                    invoked |-> r.invoked,
                    logged |-> r.logged,
                    raised |-> r.raised,
                    returned |-> r.raised = None]
    /\ UNCHANGED <<grid, named_locations, nav, robot, patrol_log, used,
                   callback_log, sensor, as_start, as_pc, as_result, others>>

\* the direction and distance given to is_path_clear: ahead and to the
\* left; the navigator's 0.8 m and the default 1 m
ClearDirections == {<<1000, 0>>, <<0, 1000>>}

ClearDistances == {CLEAR_DISTANCE, 1000}

IsPathClear(direction, distance) ==
    /\ last' = [op |-> "is_path_clear", direction |-> direction,
                distance |-> distance,
                ret |-> is_path_clear(sensor, grid, robot, direction, distance),
                invoked |-> <<>>]
    /\ UNCHANGED <<grid, named_locations, nav, robot, patrol_log, used,
                   callback_log, sensor, as_start, as_pc, as_result, others>>

NextSensor ==
    \/ \E callback \in Listeners : OnObstacle(callback)
    \/ GetDistances
    \/ \E direction \in ClearDirections, distance \in ClearDistances :
           IsPathClear(direction, distance)

SpecSensor == InitSensor /\ [][NextSensor]_vars

----------------------------------------------------------------------------
(* scenario.py: ScenarioEngine.  An engine is a record of its fields;      *)
(* times and dt are in milliseconds, the speed multiplier in thousandths.  *)
(* persons maps a name to is_visible.                                      *)

NewScenario ==
    [_events |-> <<>>, _event_index |-> 0, _current_time |-> 0,
     _running |-> FALSE, _paused |-> FALSE, _speed |-> 1000,
     persons |-> <<>>]

\* sorted(events, key=lambda e: e.time), line 119: the sort is stable
RECURSIVE InsertEvent(_, _)
InsertEvent(e, placed) ==
    IF placed = <<>> THEN <<e>>
    ELSE IF placed[Len(placed)].time <= e.time
        THEN Append(placed, e)
        ELSE Append(InsertEvent(e, SubSeq(placed, 1, Len(placed) - 1)),
                    placed[Len(placed)])

RECURSIVE SortEvents(_)
SortEvents(events) ==
    IF events = <<>> THEN <<>>
    ELSE InsertEvent(events[Len(events)],
                     SortEvents(SubSeq(events, 1, Len(events) - 1)))

\* lines 219-224
engine_reset(sc) ==
    [sc EXCEPT !._event_index = 0, !._current_time = 0, !._paused = FALSE,
               !.persons = <<>>]

\* lines 111-121
engine_load(sc, events) == engine_reset([sc EXCEPT !._events = SortEvents(events)])

\* lines 145-171
engine_start(sc) == [engine_reset(sc) EXCEPT !._running = TRUE]
engine_stop(sc) == [sc EXCEPT !._running = FALSE, !._paused = FALSE]
engine_pause(sc) == [sc EXCEPT !._paused = TRUE]
engine_resume(sc) == [sc EXCEPT !._paused = FALSE]

\* lines 167-177: a multiplier that is not positive raises ValueError
engine_set_speed(sc, multiplier) ==
    IF multiplier <= 0 THEN sc ELSE [sc EXCEPT !._speed = multiplier]

\* lines 226-262 for the events that carry a person's name
_apply_event(people, event) ==
    IF event.event_type = "person_appears"
        THEN (event.name :> TRUE) @@ people
    ELSE IF event.event_type = "person_leaves"
        THEN IF event.name \in DOMAIN people
                 THEN (event.name :> FALSE) @@ people
                 ELSE people
    ELSE people

\* Variant whose loop body runs at most once in a tick (an if in the place
\* of the while of line 196), used to test C26.
engine_tick_OneEvent(sc, dt) ==
    IF ~sc._running \/ sc._paused THEN [scenario |-> sc, triggered |-> <<>>]
    ELSE
        LET now == sc._current_time + (dt * sc._speed) \div 1000
            moved == [sc EXCEPT !._current_time = now]
        IN  IF /\ sc._event_index < Len(sc._events)
               /\ sc._events[sc._event_index + 1].time <= now
                THEN [scenario |->
                          [moved EXCEPT !._event_index = @ + 1,
                                        !.persons = _apply_event(@,
                                            sc._events[sc._event_index + 1])],
                      triggered |-> <<sc._events[sc._event_index + 1]>>]
                ELSE [scenario |-> moved, triggered |-> <<>>]

\* lines 196-215: the while loop of tick
RECURSIVE TickLoop(_, _)
TickLoop(sc, triggered) ==
    IF sc._event_index >= Len(sc._events)
        THEN [scenario |-> sc, triggered |-> triggered]
    ELSE
        LET event == sc._events[sc._event_index + 1]
        IN  IF event.time > sc._current_time
                THEN [scenario |-> sc, triggered |-> triggered]
                ELSE TickLoop([sc EXCEPT !._event_index = @ + 1,
                                         !.persons = _apply_event(@, event)],
                              Append(triggered, event))

\* lines 181-217: the engine after the call and the list it returns
engine_tick(sc, dt) ==
    IF ~sc._running \/ sc._paused THEN [scenario |-> sc, triggered |-> <<>>]
    ELSE TickLoop([sc EXCEPT !._current_time = @ + (dt * sc._speed) \div 1000],
                  <<>>)

\* the events given to load, the dt given to tick and the multipliers given
\* to set_speed
EventPool ==
    [time : {0, 1000, 2000}, event_type : {"person_appears", "person_leaves"},
     name : {"Amy"}]
EventLists == UNION {[1..n -> EventPool] : n \in 0..MaxEvents}
TickDts == {500, 1500}
Multipliers == {0, 1000, 2000}

\* what has been called last, and since the last reset of the engine: the
\* events triggered (with the time of the tick that triggered each and the
\* time before it) and the number of ticks that advanced the time
NoScenarioCall ==
    [op |-> "none", ret |-> <<>>, before |-> NewScenario, log |-> <<>>, ticks |-> 0]

InitScenario ==
    /\ grid = NewGrid
    /\ named_locations = NoLocations
    /\ nav = NewNavigator(FALSE)
    /\ robot = NewRobot
    /\ last = NoScenarioCall
    /\ patrol_log = NoPatrol
    /\ used = NoneUsed
    /\ callback_log = NoCallback
    /\ sensor = NewDetector
    /\ AStarIdle
    /\ scenario = NewScenario
    /\ search = None
    /\ web = None
    /\ proactive = None
    /\ persons = None
    /\ omap = None
    /\ chassis = None

ScenarioFrame ==
    UNCHANGED <<grid, named_locations, nav, robot, patrol_log, callback_log,
                sensor, as_start, as_pc, as_result, search, web, proactive,
                persons,
                omap, chassis>>

\* a call that resets the engine (reset is TRUE) or leaves its time alone
ScenarioCalled(op, sc, reset) ==
    /\ scenario' = sc
    /\ last' = [op |-> op, ret |-> <<>>, before |-> scenario,
                log |-> IF reset THEN <<>> ELSE last.log,
                ticks |-> IF reset THEN 0 ELSE last.ticks]
    /\ ScenarioFrame

ScenarioLoad(events) ==
    /\ used.load < MaxLoads
    /\ used' = [used EXCEPT !.load = @ + 1]
    /\ ScenarioCalled("load", engine_load(scenario, events), TRUE)

ScenarioStart ==
    /\ UNCHANGED used
    /\ ScenarioCalled("start", engine_start(scenario), TRUE)

ScenarioStop ==
    /\ UNCHANGED used
    /\ ScenarioCalled("stop", engine_stop(scenario), FALSE)

ScenarioPause ==
    /\ UNCHANGED used
    /\ ScenarioCalled("pause", engine_pause(scenario), FALSE)

ScenarioResume ==
    /\ UNCHANGED used
    /\ ScenarioCalled("resume", engine_resume(scenario), FALSE)

ScenarioSetSpeed(multiplier) ==
    /\ UNCHANGED used
    /\ ScenarioCalled("set_speed", engine_set_speed(scenario, multiplier), FALSE)

ScenarioTick(dt) ==
    /\ scenario._current_time < MaxScenarioTime
    /\ \E r \in {engine_tick(scenario, dt)} :
           /\ scenario' = r.scenario
           /\ last' = [op |-> "tick", ret |-> r.triggered, before |-> scenario,
                       log |-> last.log \o
                               [i \in 1..Len(r.triggered) |->
                                   [event |-> r.triggered[i],
                                    at |-> r.scenario._current_time,
                                    prev |-> scenario._current_time,
                                    first |-> last.ticks = 0]],
                       ticks |-> IF r.scenario._current_time # scenario._current_time
                                     THEN last.ticks + 1 ELSE last.ticks]
    /\ UNCHANGED used
    /\ ScenarioFrame

NextScenario ==
    \/ \E events \in EventLists : ScenarioLoad(events)
    \/ ScenarioStart
    \/ ScenarioStop
    \/ ScenarioPause
    \/ ScenarioResume
    \/ \E multiplier \in Multipliers : ScenarioSetSpeed(multiplier)
    \/ \E dt \in TickDts : ScenarioTick(dt)

SpecScenario == InitScenario /\ [][NextScenario]_vars

\* ---------------------------------------------------------------------------
\* person_detector.py (MockPersonDetector) and proactive.py (ProactiveTrigger)
\* Times are thousandths of a second.
\* ---------------------------------------------------------------------------

\* ProactiveTrigger.__init__ defaults
GREET_COOLDOWN == 30000

IDLE_TIMEOUT == 120000

\* readings of time.time(): a wall clock far beyond the greet cooldown,
\* advancing in steps shorter than the cooldown
Epoch == 100000

ClockStep == 20000

PersonNames == {"Alice", "Bob"}

\* inject_person's default position and another one
Positions == {<<500, 500>>, <<200, 800>>}

\* dt of the trigger's update calls
IdleDts == {50000, 70000}

\* dt of the detector's update calls
AbsenceDts == {50000}

\* MockPersonDetector.__init__: _persons is a dict, here a function that
\* maps the names that are not keys to None
NewPersonDetector ==
    [_persons |-> [n \in PersonNames |-> None], _accumulated_absence |-> 0]

person_count(pd) == Cardinality({n \in PersonNames : pd._persons[n] # None})

person_visible(pd) == person_count(pd) > 0

\* MockPersonDetector.update
detector_update(pd, dt) ==
    IF ~person_visible(pd)
        THEN [pd EXCEPT !._accumulated_absence = @ + dt]
        ELSE pd

\* inject_person, with every call of on_person_appeared it makes
inject_person(pd, name, position) ==
    LET was_empty == person_count(pd) = 0
    IN  [detector |-> [pd EXCEPT !._persons[name] = position,
                                 !._accumulated_absence = 0],
         calls |-> IF was_empty THEN <<"on_person_appeared">> ELSE <<>>]

remove_person_AnyLeft(pd, name) ==
    IF pd._persons[name] = None
        THEN [detector |-> pd, calls |-> <<>>]
        ELSE [detector |-> [pd EXCEPT !._persons[name] = None],
              calls |-> <<"on_person_left">>]

\* remove_person, with every call of on_person_left it makes
remove_person(pd, name) ==
    IF pd._persons[name] = None
        THEN [detector |-> pd, calls |-> <<>>]
        ELSE LET next == [pd EXCEPT !._persons[name] = None]
             IN  [detector |-> next,
                  calls |-> IF person_count(next) = 0
                                THEN <<"on_person_left">> ELSE <<>>]

\* ProactiveTrigger.__init__
NewTrigger ==
    [_running |-> FALSE, _enabled |-> TRUE, _last_greet_time |-> 0,
     _idle_elapsed |-> 0, _idle_triggered |-> FALSE]

trigger_start(tr) ==
    [tr EXCEPT !._running = TRUE, !._idle_elapsed = 0,
               !._idle_triggered = FALSE]

trigger_stop(tr) == [tr EXCEPT !._running = FALSE]

set_enabled(tr, value) == [tr EXCEPT !._enabled = value]

reset_idle_timer(tr) ==
    [tr EXCEPT !._idle_elapsed = 0, !._idle_triggered = FALSE]

\* each operation below returns the trigger and the trigger types handed
\* to _fire, that is to on_trigger
trigger_update_Refires(tr, visible, dt) ==
    IF ~tr._running \/ ~tr._enabled THEN [trigger |-> tr, fired |-> <<>>]
    ELSE IF ~visible THEN [trigger |-> tr, fired |-> <<>>]
    ELSE LET t1 == [tr EXCEPT !._idle_elapsed = @ + dt]
         IN  IF t1._idle_elapsed >= IDLE_TIMEOUT
                 THEN [trigger |-> [t1 EXCEPT !._idle_triggered = TRUE],
                       fired |-> <<"idle">>]
                 ELSE [trigger |-> t1, fired |-> <<>>]

trigger_update(tr, visible, dt) ==
    IF ~tr._running \/ ~tr._enabled THEN [trigger |-> tr, fired |-> <<>>]
    ELSE IF ~visible THEN [trigger |-> tr, fired |-> <<>>]
    ELSE LET t1 == [tr EXCEPT !._idle_elapsed = @ + dt]
         IN  IF ~t1._idle_triggered /\ t1._idle_elapsed >= IDLE_TIMEOUT
                 THEN [trigger |-> [t1 EXCEPT !._idle_triggered = TRUE],
                       fired |-> <<"idle">>]
                 ELSE [trigger |-> t1, fired |-> <<>>]

_on_person_appeared(tr, now) ==
    IF ~tr._running \/ ~tr._enabled THEN [trigger |-> tr, fired |-> <<>>]
    ELSE IF now - tr._last_greet_time < GREET_COOLDOWN
        THEN [trigger |-> tr, fired |-> <<>>]
    ELSE [trigger |-> reset_idle_timer([tr EXCEPT !._last_greet_time = now]),
          fired |-> <<"greet">>]

_on_person_left(tr) ==
    IF ~tr._running \/ ~tr._enabled THEN [trigger |-> tr, fired |-> <<>>]
    ELSE [trigger |-> reset_idle_timer(tr), fired |-> <<"farewell">>]

\* the detector's callbacks are bound to the trigger by its constructor:
\* run the handlers of the callbacks a detector call has made
Handle(tr, calls, now) ==
    IF calls = <<>> THEN [trigger |-> tr, fired |-> <<>>]
    ELSE IF calls[1] = "on_person_appeared" THEN _on_person_appeared(tr, now)
    ELSE _on_person_left(tr)

\* what time.time() returns after clock steps of the wall clock
Now(clock) == Epoch + clock * ClockStep

Has(seq, x) == \E i \in 1..Len(seq) : seq[i] = x

Cap(t) == IF t > MaxIdle THEN MaxIdle ELSE t

\* a person visible, the trigger running and enabled
Attended(pd, tr) == tr._running /\ tr._enabled /\ person_visible(pd)

NoProactiveCall ==
    [op |-> "none", name |-> None, calls |-> <<>>, fired |-> <<>>,
     before |-> [detector |-> NewPersonDetector, trigger |-> NewTrigger],
     acc |-> 0, was_fired |-> FALSE, is_fired |-> FALSE,
     was_fired_listed |-> FALSE, is_fired_listed |-> FALSE,
     broken |-> TRUE, present |-> {}]

InitProactive ==
    /\ grid = NewGrid
    /\ named_locations = NoLocations
    /\ nav = NewNavigator(FALSE)
    /\ robot = NewRobot
    /\ last = NoProactiveCall
    /\ patrol_log = NoPatrol
    /\ used = NoneUsed
    /\ callback_log = NoCallback
    /\ sensor = NewDetector
    /\ AStarIdle
    /\ scenario = None
    /\ search = None
    /\ web = None
    /\ persons = NewPersonDetector
    /\ omap = None
    /\ chassis = None
    /\ proactive = [trigger |-> NewTrigger, clock |-> 0]

ProactiveFrame ==
    UNCHANGED <<grid, named_locations, nav, robot, patrol_log, callback_log,
                used, sensor, as_start, as_pc, as_result, search, web,
                scenario, omap, chassis>>

\* One call: the new detector and trigger, the callbacks made and trigger
\* types fired, and what has been seen since the idle timer was last reset:
\* the update time accumulated while a person was attended, and whether the
\* idle trigger has fired.  The _listed fields say so since the last reset
\* made by reset_idle_timer, a greet or a farewell; broken says that since
\* such a reset there was a moment with nobody attended.  present is the
\* set of names injected and not removed since.
ProactiveCalled(op, name, pd, tr, calls, fired, dt) ==
    LET reset_listed == op = "reset_idle_timer" \/ Has(fired, "greet")
                            \/ Has(fired, "farewell")
        reset == reset_listed \/ op = "start"
        counted == op = "update" /\ Attended(persons, proactive.trigger)
        idle == Has(fired, "idle")
    IN  /\ persons' = pd
        /\ proactive' = [proactive EXCEPT !.trigger = tr]
        /\ last' = [op |-> op, name |-> name, calls |-> calls, fired |-> fired,
                    before |-> [detector |-> persons,
                                trigger |-> proactive.trigger],
                    acc |-> IF reset THEN 0
                            ELSE IF counted THEN Cap(last.acc + dt)
                            ELSE last.acc,
                    was_fired |-> last.is_fired,
                    is_fired |-> IF reset THEN FALSE ELSE last.is_fired \/ idle,
                    was_fired_listed |-> last.is_fired_listed,
                    is_fired_listed |-> IF reset_listed THEN FALSE
                                        ELSE last.is_fired_listed \/ idle,
                    broken |-> IF reset_listed THEN ~Attended(pd, tr)
                               ELSE last.broken \/ ~Attended(pd, tr),
                    present |-> IF op = "inject_person"
                                    THEN last.present \cup {name}
                                ELSE IF op = "remove_person"
                                    THEN last.present \ {name}
                                ELSE last.present]
        /\ ProactiveFrame

TriggerStart ==
    ProactiveCalled("start", None, persons, trigger_start(proactive.trigger),
                    <<>>, <<>>, 0)

TriggerStop ==
    ProactiveCalled("stop", None, persons, trigger_stop(proactive.trigger),
                    <<>>, <<>>, 0)

TriggerSetEnabled(value) ==
    ProactiveCalled("enabled", None, persons,
                    set_enabled(proactive.trigger, value), <<>>, <<>>, 0)

TriggerResetIdleTimer ==
    ProactiveCalled("reset_idle_timer", None, persons,
                    reset_idle_timer(proactive.trigger), <<>>, <<>>, 0)

TriggerUpdate(dt) ==
    /\ proactive.trigger._idle_elapsed < MaxIdle
    /\ \E r \in {trigger_update(proactive.trigger, person_visible(persons), dt)} :
           ProactiveCalled("update", None, persons, r.trigger, <<>>, r.fired, dt)

DetectorUpdate(dt) ==
    /\ persons._accumulated_absence < MaxAbsence
    /\ ProactiveCalled("detector_update", None, detector_update(persons, dt),
                       proactive.trigger, <<>>, <<>>, 0)

InjectPerson(name, position) ==
    \E r \in {inject_person(persons, name, position)} :
        \E h \in {Handle(proactive.trigger, r.calls, Now(proactive.clock))} :
            ProactiveCalled("inject_person", name, r.detector, h.trigger,
                            r.calls, h.fired, 0)

RemovePerson(name) ==
    \E r \in {remove_person(persons, name)} :
        \E h \in {Handle(proactive.trigger, r.calls, Now(proactive.clock))} :
            ProactiveCalled("remove_person", name, r.detector, h.trigger,
                            r.calls, h.fired, 0)

\* the wall clock advances
ClockTick ==
    /\ proactive.clock < MaxClock
    /\ proactive' = [proactive EXCEPT !.clock = @ + 1]
    /\ UNCHANGED <<persons, last>>
    /\ ProactiveFrame

NextProactive ==
    \/ TriggerStart
    \/ TriggerStop
    \/ \E value \in BOOLEAN : TriggerSetEnabled(value)
    \/ TriggerResetIdleTimer
    \/ \E dt \in IdleDts : TriggerUpdate(dt)
    \/ \E dt \in AbsenceDts : DetectorUpdate(dt)
    \/ \E name \in PersonNames, position \in Positions : InjectPerson(name, position)
    \/ \E name \in PersonNames : RemovePerson(name)
    \/ ClockTick

SpecProactive == InitProactive /\ [][NextProactive]_vars

----------------------------------------------------------------------------
(* The robot's movement on its own: move_to and update_position called on  *)
(* a MockReachyMini built with one of a few speeds.                        *)

\* the speeds given to MockReachyMini (the default 0.5, and 1.0), the
\* targets given to move_to and the dt given to update_position
RobotSpeeds == {DEFAULT_SPEED, 1000}
MoveTargets == {<<0, 0>>, <<4000, 0>>, <<3000, 4000>>, <<-3000, -4000>>, <<0, -1000>>}
MoveDts == {1000, 2500}

InitRobot ==
    /\ grid = NewGrid
    /\ named_locations = NoLocations
    /\ nav = NewNavigator(FALSE)
    /\ robot \in {[NewRobot EXCEPT !.speed = speed] : speed \in RobotSpeeds}
    /\ NothingCalled
    /\ AStarIdle
    /\ OthersIdle

RobotFrame ==
    UNCHANGED <<grid, named_locations, nav, patrol_log, callback_log, sensor,
                as_start, as_pc, as_result, others>>

MoveTo(x, y) ==
    /\ used.move_to < MaxMoves
    /\ robot' = move_to(robot, x, y)
    /\ last' = [op |-> "move_to", before |-> robot, dt |-> 0, ret |-> FALSE]
    /\ used' = [used EXCEPT !.move_to = @ + 1]
    /\ RobotFrame

UpdatePosition(dt) ==
    /\ robot' = update_position(robot, dt)
    /\ last' = [op |-> "update_position", before |-> robot, dt |-> dt,
                ret |-> update_position_returns(robot, dt)]
    /\ UNCHANGED used
    /\ RobotFrame

NextRobot ==
    \/ \E p \in MoveTargets : MoveTo(p[1], p[2])
    \/ \E dt \in MoveDts : UpdatePosition(dt)

SpecRobot == InitRobot /\ [][NextRobot]_vars

----------------------------------------------------------------------------
(* chassis_controller.py: MockChassis.  Positions are in thousandths of a  *)
(* metre and linear speeds in thousandths of a metre per second.  Angles   *)
(* are counted in eighths of a turn (pi/4), angular speeds in eighths of a *)
(* turn per second and dt in whole seconds, so that every heading met has  *)
(* a cosine and a sine in the table below; a speed below 1e-9 is 0 here.   *)

\* math.cos and math.sin of h eighths of a turn, in thousandths
Cos(h) == << 1000, 707, 0, -707, -1000, -707, 0, 707 >>[(h % 8) + 1]

Sin(h) == Cos(h - 2)

\* math.atan2(math.sin(h), math.cos(h)): the angle in [-pi, pi]; for an odd
\* multiple of pi the sine computed is a tiny number of the sign of h
atan2_sin_cos(h) ==
    IF h % 8 < 4 THEN h % 8
    ELSE IF h % 8 > 4 THEN (h % 8) - 8
    ELSE IF h > 0 THEN 4 ELSE -4

\* MockChassis.__init__
MockChassis(x, y, heading) ==
    [x |-> x, y |-> y, heading |-> heading,
     _linear_speed |-> 0, _angular_speed |-> 0, _connected |-> TRUE]

set_velocity(ch, linear_speed, angular_speed) ==
    [ch EXCEPT !._linear_speed = linear_speed, !._angular_speed = angular_speed]

chassis_stop(ch) == [ch EXCEPT !._linear_speed = 0, !._angular_speed = 0]

\* tick with a slip: the position moves along the heading from before
chassis_tick_OldHeading(ch, dt) ==
    IF ch._linear_speed = 0 /\ ch._angular_speed = 0 THEN ch
    ELSE
        LET heading == atan2_sin_cos(ch.heading + ch._angular_speed * dt)
        IN  [ch EXCEPT !.heading = heading,
                       !.x = @ + Quot(ch._linear_speed * Cos(ch.heading) * dt, 1000),
                       !.y = @ + Quot(ch._linear_speed * Sin(ch.heading) * dt, 1000)]

\* tick, lines 114-133
chassis_tick(ch, dt) ==
    IF ch._linear_speed = 0 /\ ch._angular_speed = 0 THEN ch
    ELSE
        LET heading == atan2_sin_cos(ch.heading + ch._angular_speed * dt)
        IN  [ch EXCEPT !.heading = heading,
                       !.x = @ + Quot(ch._linear_speed * Cos(heading) * dt, 1000),
                       !.y = @ + Quot(ch._linear_speed * Sin(heading) * dt, 1000)]

chassis_close(ch) == chassis_stop([ch EXCEPT !._connected = FALSE])

\* the headings a chassis is built with: 0, 3 pi / 4 and 3 pi / 2
StartHeadings == {0, 3, 6}

\* the speeds given to set_velocity: 0.5 m/s back and forth, a quarter and
\* three eighths of a turn per second either way
LinearSpeeds == {0, 500, -500}

AngularSpeeds == {0, 2, -3}

ChassisDts == {1, 2}

InitChassis ==
    /\ grid = NewGrid
    /\ named_locations = NoLocations
    /\ nav = NewNavigator(FALSE)
    /\ robot = NewRobot
    /\ patrol_log = NoPatrol
    /\ used = NoneUsed
    /\ callback_log = NoCallback
    /\ sensor = NewDetector
    /\ AStarIdle
    /\ search = None
    /\ web = None
    /\ scenario = None
    /\ proactive = None
    /\ persons = None
    /\ omap = None
    /\ chassis \in {MockChassis(0, 0, heading) : heading \in StartHeadings}
    /\ last = [op |-> "none", dt |-> 0, before |-> chassis, ticks |-> 0]

\* one call on the chassis
ChassisCalled(op, ch, dt) ==
    /\ chassis' = ch
    /\ last' = [op |-> op, dt |-> dt, before |-> chassis,
                ticks |-> IF op = "tick" THEN last.ticks + 1 ELSE last.ticks]
    /\ UNCHANGED <<grid, named_locations, nav, robot, patrol_log, used,
                   callback_log, sensor, as_start, as_pc, as_result, search,
                   web, scenario, proactive, persons, omap>>

SetVelocity(linear_speed, angular_speed) ==
    ChassisCalled("set_velocity",
                  set_velocity(chassis, linear_speed, angular_speed), 0)

ChassisStop == ChassisCalled("stop", chassis_stop(chassis), 0)

ChassisTick(dt) ==
    /\ last.ticks < MaxTicks
    /\ ChassisCalled("tick", chassis_tick(chassis, dt), dt)

ChassisClose == ChassisCalled("close", chassis_close(chassis), 0)

NextChassis ==
    \/ \E linear_speed \in LinearSpeeds, angular_speed \in AngularSpeeds :
           SetVelocity(linear_speed, angular_speed)
    \/ ChassisStop
    \/ \E dt \in ChassisDts : ChassisTick(dt)
    \/ ChassisClose

SpecChassis == InitChassis /\ [][NextChassis]_vars

----------------------------------------------------------------------------
(* web_server.py: the multi-threaded host.  Three threads use the          *)
(* navigator: the simulation thread (_simulation_loop), a request handler  *)
(* (POST /api/navigate) and the brain's background thread, which runs      *)
(* _on_brain_response.  web.lock is _sim_lock: "free" or the thread that   *)
(* holds it.  A call of a thread that holds no lock is taken in two steps, *)
(* before and after the point where another thread can run.                *)

\* web_server.py line 111 (_SIM_DT, at speed multiplier 1) in milliseconds,
\* and the speed _init_simulation gives the robot (line 267)
SIM_DT == 500
WEB_SPEED == 3000

\* the location names that reach navigate_to in the host
WebNames == {"A", "B", "X"}

\* the bodies of the requests to POST /api/navigate: a location name, or a
\* cell x, y (location is None when the body has no such key)
Bodies ==
    {[location |-> name, x |-> 0, y |-> 0] : name \in WebNames}
        \cup {[location |-> None, x |-> p[1], y |-> p[2]] : p \in Points}

\* line 705: f"({gx},{gy})"
CellTarget(gx, gy) == "(" \o ToString(gx) \o "," \o ToString(gy) \o ")"

Failure(error) == [success |-> FALSE, error |-> error]

\* Variant that names the target before it looks for a path (line 705 moved
\* before line 699), used to test C22.
navigate_TargetFirst(nv, rb, g, locs, body) ==
    IF body.location # None
        THEN LET r == navigate_to(nv, g, locs, body.location, rb.position, None)
             IN  IF r.ret
                     THEN [nav |-> r.nav,
                           response |-> [success |-> TRUE, error |-> None]]
                     ELSE [nav |-> r.nav, response |-> Failure("cannot navigate")]
    ELSE IF ~is_walkable(g, body.x, body.y)
        THEN [nav |-> nv, response |-> Failure("not walkable")]
    ELSE
        LET start == <<round(rb.position[1]), round(rb.position[2])>>
            path == a_star(g, start, <<body.x, body.y>>)
            named == [nv EXCEPT !.current_target = CellTarget(body.x, body.y)]
        IN  IF ~path.found
                THEN [nav |-> named, response |-> Failure("no path")]
                ELSE [nav |-> [named EXCEPT !.path = path.path,
                                            !.path_index = 0],
                      response |-> [success |-> TRUE, error |-> None]]

\* navigate, lines 667-708, once the simulator is initialised: the navigator
\* after the request and the response
navigate(nv, rb, g, locs, body) ==
    IF body.location # None
        THEN LET r == navigate_to(nv, g, locs, body.location, rb.position, None)
             IN  IF r.ret
                     THEN [nav |-> r.nav,
                           response |-> [success |-> TRUE, error |-> None]]
                     ELSE [nav |-> r.nav, response |-> Failure("cannot navigate")]
    ELSE IF ~is_walkable(g, body.x, body.y)
        THEN [nav |-> nv, response |-> Failure("not walkable")]
    ELSE
        LET start == <<round(rb.position[1]), round(rb.position[2])>>
            path == a_star(g, start, <<body.x, body.y>>)
        IN  IF ~path.found
                THEN [nav |-> nv, response |-> Failure("no path")]
                ELSE [nav |-> [nv EXCEPT !.path = path.path,
                                         !.path_index = 0,
                                         !.current_target =
                                             CellTarget(body.x, body.y)],
                      response |-> [success |-> TRUE, error |-> None]]

NewWeb ==
    [lock |-> "free", sim_pc |-> "sleep", api_pc |-> "idle",
     brain_pc |-> "wait", brain_plan |-> None]

InitWeb ==
    /\ grid \in Grids
    /\ named_locations = OfficeLocations
    /\ nav = NewNavigator(FALSE)
    /\ robot = [NewRobot EXCEPT !.speed = WEB_SPEED]
    /\ NothingCalled
    /\ AStarIdle
    /\ web = NewWeb
    /\ search = None
    /\ scenario = None
    /\ proactive = None
    /\ persons = None
    /\ omap = None
    /\ chassis = None

WebFrame ==
    UNCHANGED <<grid, named_locations, patrol_log, callback_log, sensor,
                as_start, as_pc, as_result, search, scenario, proactive, persons,
                omap, chassis>>

\* _simulation_loop line 406: with _sim_lock
SimLock ==
    /\ web.sim_pc = "sleep"
    /\ web.lock = "free"
    /\ web' = [web EXCEPT !.lock = "sim", !.sim_pc = "tick"]
    /\ last' = [NoCall EXCEPT !.op = "sim_lock"]
    /\ UNCHANGED <<nav, robot, used>>
    /\ WebFrame

\* lines 411-412: _scenario.tick, whose handler (_handle_scenario_event)
\* calls navigate_to for some events
SimTick ==
    /\ web.sim_pc = "tick"
    /\ web' = [web EXCEPT !.sim_pc = "update"]
    /\ \/ /\ last' = [NoCall EXCEPT !.op = "tick"]
          /\ UNCHANGED <<nav, used>>
       \/ /\ used.navigate_to < MaxNavigate
          /\ \E name \in WebNames :
               \E r \in {navigate_to(nav, grid, named_locations, name,
                                     robot.position, None)} :
                   /\ nav' = r.nav
                   /\ last' = [NoCall EXCEPT !.op = "tick", !.name = name,
                                             !.ret = r.ret, !.outcome = r.outcome]
          /\ used' = [used EXCEPT !.navigate_to = @ + 1]
    /\ UNCHANGED robot
    /\ WebFrame

\* lines 416-417, Navigator.update lines 201-216: up to the obstacle check
SimUpdateCheck ==
    /\ web.sim_pc = "update"
    /\ IF ~is_navigating(nav)
          THEN /\ web' = [web EXCEPT !.sim_pc = "unlock"]
               /\ UNCHANGED nav
          ELSE /\ web' = [web EXCEPT !.sim_pc = "advance"]
               /\ \E cooled \in {Cooled(nav, SIM_DT)} :
                      nav' = IF WantsReplan(cooled, robot, grid)
                                 THEN _try_replan(cooled, robot, grid,
                                                  named_locations).nav
                                 ELSE cooled
    /\ last' = [NoCall EXCEPT !.op = "update"]
    /\ UNCHANGED <<robot, used>>
    /\ WebFrame

\* Navigator.update lines 218-233: the rest of the call
SimUpdateAdvance ==
    /\ web.sim_pc = "advance"
    /\ \E adv \in {Advance(nav, robot, SIM_DT)} :
           /\ nav' = adv.nav
           /\ robot' = adv.robot
           /\ last' = [NoCall EXCEPT !.op = "update", !.fired = adv.fired]
    /\ web' = [web EXCEPT !.sim_pc = "unlock"]
    /\ UNCHANGED used
    /\ WebFrame

\* the end of the with block
SimUnlock ==
    /\ web.sim_pc = "unlock"
    /\ web' = [web EXCEPT !.lock = "free", !.sim_pc = "sleep"]
    /\ last' = [NoCall EXCEPT !.op = "sim_unlock"]
    /\ UNCHANGED <<nav, robot, used>>
    /\ WebFrame

\* navigate line 678: with _sim_lock
ApiLock ==
    /\ web.api_pc = "idle"
    /\ web.lock = "free"
    /\ used.navigate_to < MaxNavigate
    /\ web' = [web EXCEPT !.lock = "api", !.api_pc = "navigate"]
    /\ last' = [NoCall EXCEPT !.op = "api_lock"]
    /\ UNCHANGED <<nav, robot, used>>
    /\ WebFrame

\* navigate lines 679-687 and 689-708: the request names a location
\* (navigate_to) or gives a cell (a_star from the robot's cell, and the
\* navigator's fields set from outside)
ApiNavigate(body) ==
    /\ web.api_pc = "navigate"
    /\ \E r \in {navigate(nav, robot, grid, named_locations, body)} :
           /\ nav' = r.nav
           /\ last' = [op |-> "api_navigate", body |-> body,
                       response |-> r.response, before |-> nav]
    /\ used' = [used EXCEPT !.navigate_to = @ + 1]
    /\ web' = [web EXCEPT !.api_pc = "unlock"]
    /\ UNCHANGED robot
    /\ WebFrame

ApiUnlock ==
    /\ web.api_pc = "unlock"
    /\ web' = [web EXCEPT !.lock = "free", !.api_pc = "idle"]
    /\ last' = [NoCall EXCEPT !.op = "api_unlock"]
    /\ UNCHANGED <<nav, robot, used>>
    /\ WebFrame

\* _on_brain_response line 317, in the thread of AIBrain._run, with no lock
\* taken: navigate_to lines 165-177, up to the path it has planned
BrainPlan(name) ==
    /\ web.brain_pc = "wait"
    /\ used.navigate_to < MaxNavigate
    /\ \E r \in {navigate_to(nav, grid, named_locations, name,
                             robot.position, None)} :
           /\ web' = IF r.ret
                         THEN [web EXCEPT !.brain_pc = "install",
                                          !.brain_plan = [name |-> name,
                                                          path |-> r.nav.path]]
                         ELSE web
           /\ last' = [NoCall EXCEPT !.op = "brain_plan", !.name = name,
                                     !.ret = r.ret, !.outcome = r.outcome]
    /\ used' = [used EXCEPT !.navigate_to = @ + 1]
    /\ UNCHANGED <<nav, robot>>
    /\ WebFrame

\* navigate_to lines 179-189 in the brain's thread: the assignments
BrainInstall ==
    /\ web.brain_pc = "install"
    /\ nav' = [nav EXCEPT !.path = web.brain_plan.path,
                          !.path_index = 0,
                          !.current_target = web.brain_plan.name,
                          !.on_arrival = None]
    /\ web' = [web EXCEPT !.brain_pc = "wait", !.brain_plan = None]
    /\ last' = [NoCall EXCEPT !.op = "brain_install", !.ret = TRUE,
                              !.outcome = "ok"]
    /\ UNCHANGED <<robot, used>>
    /\ WebFrame

NextWeb ==
    \/ SimLock
    \/ SimTick
    \/ SimUpdateCheck
    \/ SimUpdateAdvance
    \/ SimUnlock
    \/ ApiLock
    \/ \E body \in Bodies : ApiNavigate(body)
    \/ ApiUnlock
    \/ \E name \in WebNames : BrainPlan(name)
    \/ BrainInstall

SpecWeb == InitWeb /\ [][NextWeb]_vars

----------------------------------------------------------------------------
(* What the claims speak of *)

Abs(n) == IF n < 0 THEN -n ELSE n

Max(a, b) == IF a >= b THEN a ELSE b

Min(a, b) == IF a <= b THEN a ELSE b

Chebyshev(a, b) == Max(Abs(a[1] - b[1]), Abs(a[2] - b[2]))

IsDiagonal(a, b) == a[1] # b[1] /\ a[2] # b[2]

\* a step from cell a to cell b that the rules allow: both walkable,
\* 8-adjacent, and a diagonal step with both flanking cells walkable
LegalStep(g, a, b) ==
    /\ is_walkable(g, a[1], a[2])
    /\ is_walkable(g, b[1], b[2])
    /\ Chebyshev(a, b) = 1
    /\ IsDiagonal(a, b) =>
           (is_walkable(g, b[1], a[2]) /\ is_walkable(g, a[1], b[2]))

LegalPath(g, p) ==
    /\ Len(p) >= 1
    /\ \A i \in 1..Len(p) : is_walkable(g, p[i][1], p[i][2])
    /\ \A i \in 1..(Len(p) - 1) : LegalStep(g, p[i], p[i + 1])

\* 1 per orthogonal step, sqrt(2) per diagonal step, in thousandths
StepCost(a, b) == IF IsDiagonal(a, b) THEN 1414 ELSE 1000

RECURSIVE PathCost(_)
PathCost(p) ==
    IF Len(p) <= 1 THEN 0
    ELSE StepCost(p[1], p[2]) + PathCost(Tail(p))

\* the cells one legal step away from cell c
LegalNext(g, c) ==
    {n \in ((c[1] - 1)..(c[1] + 1)) \X ((c[2] - 1)..(c[2] + 1)) : LegalStep(g, c, n)}

\* Dijkstra's algorithm over the legal steps: settled holds <<cell, cost>>
\* for the cells whose cheapest cost is known, frontier holds <<cost, cell>>
\* for the paths found to cells not yet settled
RECURSIVE Cheapest(_, _, _)
Cheapest(g, settled, frontier) ==
    IF frontier = {} THEN settled
    ELSE
        LET best == CHOOSE p \in frontier : \A q \in frontier : p[1] <= q[1]
            known == {p[1] : p \in settled} \cup {best[2]}
        IN  Cheapest(g,
                     settled \cup {<<best[2], best[1]>>},
                     {q \in frontier : q[2] \notin known}
                     \cup {<<best[1] + StepCost(best[2], n), n>> :
                              n \in LegalNext(g, best[2]) \ known})

\* the cells that get_neighbors steps reach from the cells of S
RECURSIVE Reach(_, _)
Reach(g, S) ==
    LET Next1(c) == LET nb == get_neighbors(g, c[1], c[2])
                    IN  {nb[i] : i \in 1..Len(nb)}
        more == S \cup UNION {Next1(c) : c \in S}
    IN  IF more = S THEN S ELSE Reach(g, more)

AStarDone == as_pc = "done"

Found == {goal \in Points : as_result[goal].found}

\* C1: a path a_star returns is non-empty, runs from start to goal over
\* walkable cells, each step to an 8-adjacent cell, and no diagonal step
\* passes a blocked corner.
C1_PathIsLegal ==
    AStarDone =>
        \A goal \in Found :
            LET path == as_result[goal].path
            IN  /\ Len(path) >= 1
                /\ path[1] = as_start
                /\ path[Len(path)] = goal
                /\ \A i \in 1..Len(path) : is_walkable(grid, path[i][1], path[i][2])
                /\ \A i \in 1..(Len(path) - 1) :
                       /\ Chebyshev(path[i], path[i + 1]) = 1
                       /\ IsDiagonal(path[i], path[i + 1]) =>
                              /\ is_walkable(grid, path[i + 1][1], path[i][2])
                              /\ is_walkable(grid, path[i][1], path[i + 1][2])

\* C1 witness: a returned path that goes round a wall with a diagonal step.
C1_Witness ==
    /\ AStarDone
    /\ \E c \in Cells : grid[c] = WALL
    /\ \E goal \in Found :
           /\ Len(as_result[goal].path) > Chebyshev(as_start, goal) + 1
           /\ \E i \in 1..(Len(as_result[goal].path) - 1) :
                  IsDiagonal(as_result[goal].path[i], as_result[goal].path[i + 1])

\* C2: the path a_star returns costs no more than any legal path from
\* start to goal; on the open square grid the path between opposite
\* corners has as many cells as the grid is wide.
C2_PathIsCheapest ==
    AStarDone =>
        LET D == Cheapest(grid, {}, {<<0, as_start>>})
        IN  /\ \A goal \in Found :
                   <<goal, PathCost(as_result[goal].path)>> \in D
            /\ ( /\ Width = Height
                 /\ \A c \in Cells : grid[c] = EMPTY
                 /\ as_start = <<0, 0>> )
               => /\ <<Width - 1, Height - 1>> \in Found
                  /\ Len(as_result[<<Width - 1, Height - 1>>].path) = Width

\* C2 witness: a path that has to go round a wall, with a diagonal step,
\* and the path between opposite corners of the open grid.
C2_Witness ==
    /\ AStarDone
    /\ \/ /\ \E c \in Cells : grid[c] = WALL
          /\ \E goal \in Found :
                 /\ Len(as_result[goal].path) > Chebyshev(as_start, goal) + 1
                 /\ PathCost(as_result[goal].path) > 2 * 1414
       \/ /\ \A c \in Cells : grid[c] = EMPTY
          /\ as_start = <<0, 0>>
          /\ <<Width - 1, Height - 1>> \in Found

\* C3: a_star fails exactly when start or goal is not walkable or no
\* sequence of get_neighbors steps leads from start to goal.
C3_FailsIffUnreachable ==
    AStarDone =>
        LET R == Reach(grid, {as_start})
        IN  \A goal \in Points :
                as_result[goal].found <=>
                    /\ is_walkable(grid, as_start[1], as_start[2])
                    /\ is_walkable(grid, goal[1], goal[2])
                    /\ goal \in R

\* C3 witness: both ends walkable, the goal walled off, and a_star failed.
C3_Witness ==
    /\ AStarDone
    /\ is_walkable(grid, as_start[1], as_start[2])
    /\ \E goal \in Points :
           /\ ~as_result[goal].found
           /\ is_walkable(grid, goal[1], goal[2])

----------------------------------------------------------------------------
(* The Navigator's claims *)

\* the robot stands exactly on cell c
AtCell(rb, c) == rb.position = <<c[1] * ORTH_COST, c[2] * ORTH_COST>>

\* the cell of the named location the navigator is heading for
TargetCell(nv) == named_locations[nv.current_target].position

\* a path can be planned from start to goal on grid g
CanPlan(g, start, goal) ==
    /\ is_walkable(g, start[1], start[2])
    /\ is_walkable(g, goal[1], goal[2])
    /\ goal \in Reach(g, {start})

Walls == {c \in Cells : grid[c] = WALL}

\* C4: on a static map, without an obstacle detector, a navigation that
\* navigate_to started is ended by the repeated update calls, and the update
\* that ends it leaves the robot exactly on the target location's cell.
C4_NavigationCompletes ==
    /\ is_navigating(nav) ~> ~is_navigating(nav)
    /\ [][(is_navigating(nav) /\ ~is_navigating(nav'))
              => AtCell(robot', TargetCell(nav))]_vars

\* C4 witness: a navigation round a wall has ended with the robot on the
\* cell of location A.
C4_Witness ==
    /\ Walls # {}
    /\ last.op = "update"
    /\ callback_log.given = "cb"
    /\ callback_log.count = 1
    /\ ~is_navigating(nav)
    /\ Len(nav.path) > Width
    /\ AtCell(robot, named_locations["A"].position)

\* C5 as claimed: after a successful navigate_to the navigator is
\* navigating to the name, the cursor is 0, and the path runs from the
\* robot's current cell to the named location's cell.
C5_PathStartsAtAgentCell ==
    (last.op = "navigate_to" /\ last.ret) =>
        /\ is_navigating(nav)
        /\ nav.current_target = last.name
        /\ nav.path_index = 0
        /\ nav.path[1] = <<round(robot.position[1]), round(robot.position[2])>>
        /\ nav.path[Len(nav.path)] = named_locations[last.name].position

\* C5 amended: after a successful navigate_to the navigator is navigating
\* to the name, the cursor is 0, and the path runs from the cell nearest to
\* the from_pos given to the call, or from cell (0, 0) when none was given,
\* to the named location's cell.
C5_PathStartsAtFromPos ==
    (last.op = "navigate_to" /\ last.ret) =>
        /\ last.outcome = "ok"
        /\ is_navigating(nav)
        /\ nav.current_target = last.name
        /\ nav.path_index = 0
        /\ Len(nav.path) >= 1
        /\ nav.path[1] = IF last.from_pos # NoPos
                             THEN <<round(last.from_pos[1]), round(last.from_pos[2])>>
                             ELSE <<0, 0>>
        /\ nav.path[Len(nav.path)] = named_locations[last.name].position

\* C5 witness: a successful navigate_to without from_pos while the robot is
\* away from cell (0, 0): the path starts at cell (0, 0).
C5_Witness ==
    /\ last.op = "navigate_to"
    /\ last.ret
    /\ last.from_pos = NoPos
    /\ <<round(robot.position[1]), round(robot.position[2])>> # <<0, 0>>
    /\ nav.path[1] = <<0, 0>>

\* C6: navigate_to with a name that is no named location returns false and
\* leaves path, cursor, current target and arrival callback as they were:
\* an idle navigator stays idle, a navigation under way goes on.
C6_UnknownNameChangesNothing ==
    [][(last'.op = "navigate_to" /\ last'.name \notin DOMAIN named_locations)
          => /\ ~last'.ret
             /\ last'.outcome = "NotFound"
             /\ nav'.path = nav.path
             /\ nav'.path_index = nav.path_index
             /\ nav'.current_target = nav.current_target
             /\ nav'.on_arrival = nav.on_arrival
             /\ is_navigating(nav') = is_navigating(nav)]_vars

\* C6 witness: navigate_to with an unknown name has returned while a
\* navigation with a callback was under way, part of its path done.
C6_Witness ==
    /\ last.op = "navigate_to"
    /\ last.outcome = "NotFound"
    /\ is_navigating(nav)
    /\ nav.path_index > 0
    /\ nav.on_arrival = "cb"

\* C7 as claimed: when navigate_to finds the name but no path, it returns
\* false and the navigator is idle afterwards, with no current target.
C7_NoPathLeavesIdle ==
    (last.op = "navigate_to" /\ last.outcome = "NoPath") =>
        /\ ~last.ret
        /\ ~is_navigating(nav)
        /\ nav.current_target = None

\* C7 amended: when navigate_to finds the name but no path can be planned
\* (start or goal not walkable, or goal unreachable), it returns false and
\* leaves the navigator as it was: idle if it was idle, and still on its
\* way to the earlier target if it was navigating.
C7_NoPathChangesNothing ==
    [][(last'.op = "navigate_to" /\ last'.name \in DOMAIN named_locations)
          => IF CanPlan(grid, StartCell(last'.from_pos),
                        named_locations[last'.name].position)
                 THEN last'.outcome = "ok" /\ last'.ret
                 ELSE /\ last'.outcome = "NoPath"
                      /\ ~last'.ret
                      /\ nav' = nav]_vars

\* C7 witness: navigate_to has failed to plan while a navigation was under
\* way, and that navigation is still under way.
C7_Witness ==
    /\ last.op = "navigate_to"
    /\ last.outcome = "NoPath"
    /\ is_navigating(nav)
    /\ nav.current_target # None

\* C8: the callback given to a successful navigate_to is invoked by the
\* update that ends the navigation, the robot standing on the path's last
\* cell, and by no other: while the navigation is under way update has
\* invoked no callback, once it has ended update has invoked the callback
\* exactly once, and an update of an idle navigator invokes nothing.
C8_CallbackExactlyOnce ==
    /\ [](/\ callback_log.count <= 1
          /\ is_navigating(nav) => callback_log.count = 0
          /\ (~is_navigating(nav) /\ callback_log.given # None)
                 => (callback_log.count = 1 /\ nav.on_arrival = None))
    /\ [][last'.op = "update" =>
              IF is_navigating(nav) /\ ~is_navigating(nav')
                  THEN /\ last'.fired = callback_log.given
                       /\ AtCell(robot, nav.path[Len(nav.path)])
                       /\ nav'.current_target = None
                  ELSE last'.fired = None]_vars

\* C8 witness: the callback has been invoked once, and a later update of
\* the idle navigator has invoked nothing.
C8_Witness ==
    /\ callback_log.given = "cb"
    /\ callback_log.count = 1
    /\ ~is_navigating(nav)
    /\ last.op = "update"
    /\ last.fired = None

\* the cell the robot is in
RobotCell(rb) == <<round(rb.position[1]), round(rb.position[2])>>

\* C9 as claimed: an update that finds the way ahead blocked, the cooldown
\* over and waypoints left replaces the path by a legal path on the current
\* grid from the robot's cell to the target location's cell, sets the
\* cursor to 0, keeps the current target and sets the cooldown to 2.
C9_UpdateReplans ==
    [][(last'.op = "update" /\ last'.replan # "none") =>
          /\ LegalPath(grid, nav'.path)
          /\ nav'.path[1] = RobotCell(robot)
          /\ nav'.path[Len(nav'.path)] = TargetCell(nav)
          /\ nav'.path_index = 0
          /\ nav'.current_target = nav.current_target
          /\ nav'.replan_cooldown = REPLAN_COOLDOWN]_vars

\* C9 amended: an update of a navigator with an obstacle detector that
\* finds the way ahead blocked, the cooldown over and waypoints left keeps
\* the current target and tries to replan.  If a path from the robot's cell
\* to the target location's cell can be planned on the current grid, the
\* path is replaced by such a legal path, the cooldown is set to 2, and the
\* cursor is set to 0 and then, by the same update, advanced to 1 unless
\* the robot is in the middle of a move.  If none can be planned, the path
\* stays and the cooldown is not restarted.
C9_UpdateTriesReplan ==
    [][(last'.op = "update" /\ last'.replan # "none") =>
          /\ nav.obstacle_detector
          /\ nav.path_index < Len(nav.path)
          /\ ~is_path_clear_ahead(grid, robot, CLEAR_DISTANCE)
          /\ nav'.current_target = nav.current_target
          /\ nav.current_target # None
          /\ IF CanPlan(grid, RobotCell(robot), TargetCell(nav))
                 THEN /\ last'.replan = "ok"
                      /\ LegalPath(grid, nav'.path)
                      /\ nav'.path[1] = RobotCell(robot)
                      /\ nav'.path[Len(nav'.path)] = TargetCell(nav)
                      /\ nav'.replan_cooldown = REPLAN_COOLDOWN
                      /\ nav'.path_index = IF is_moving(robot) THEN 0 ELSE 1
                 ELSE /\ last'.replan = "failed"
                      /\ nav'.path = nav.path
                      /\ nav'.replan_cooldown <= 0]_vars

\* C9 witness: an update has replanned round a wall that was put up, the
\* robot in the middle of a move, and the cursor is 0.
C9_Witness ==
    /\ Walls # {}
    /\ last.op = "update"
    /\ last.replan = "ok"
    /\ nav.path_index = 0
    /\ nav.replan_cooldown = REPLAN_COOLDOWN
    /\ LegalPath(grid, nav.path)
    /\ Len(nav.path) >= 2

IsSortedByTime(s) ==
    \A i \in 1..Len(s) : \A j \in i..Len(s) :
        s[i].time_minutes <= s[j].time_minutes

\* how many times entry e occurs in schedule s
Occurrences(s, e) == Cardinality({i \in 1..Len(s) : s[i] = e})

\* C10: the entries check_patrol has triggered since the schedule was set
\* are the first patrol_index entries of the schedule sorted by time; a
\* check_patrol call triggers the next entry, and only that one, exactly
\* when its time has come, and otherwise returns None and changes nothing.
C10_PatrolTriggersPrefix ==
    /\ [](/\ IsSortedByTime(nav.patrol_schedule)
          /\ \A e \in PatrolEntries :
                 Occurrences(nav.patrol_schedule, e)
                     = Occurrences(patrol_log.schedule, e)
          /\ nav.patrol_index \in 0..Len(nav.patrol_schedule)
          /\ patrol_log.triggered
                 = SubSeq(nav.patrol_schedule, 1, nav.patrol_index))
    /\ [][last'.op = "check_patrol" =>
              IF /\ nav.patrol_index < Len(nav.patrol_schedule)
                 /\ last'.minutes
                        >= nav.patrol_schedule[nav.patrol_index + 1].time_minutes
                  THEN /\ last'.ret
                       /\ nav'.patrol_index = nav.patrol_index + 1
                       /\ nav'.patrol_schedule = nav.patrol_schedule
                       /\ patrol_log'.triggered
                              = Append(patrol_log.triggered,
                                       nav.patrol_schedule[nav.patrol_index + 1])
                       /\ last'.outcome # "none"
                  ELSE /\ ~last'.ret
                       /\ last'.outcome = "none"
                       /\ nav' = nav
                       /\ patrol_log' = patrol_log]_vars

\* C10 witness: of a schedule given out of time order the earlier entry
\* has been triggered, and a check_patrol call before the time of the later
\* entry has returned None.
C10_Witness ==
    /\ Len(patrol_log.schedule) >= 2
    /\ patrol_log.schedule[1].time_minutes > patrol_log.schedule[2].time_minutes
    /\ Len(patrol_log.triggered) = 1
    /\ nav.patrol_index = 1
    /\ last.op = "check_patrol"
    /\ ~last.ret
    /\ last.minutes < nav.patrol_schedule[2].time_minutes

\* the place the robot is heading for, or stands on when it is not moving
Destination(rb) == IF is_moving(rb) THEN rb.move_target ELSE rb.position

\* C11: a successful navigate_to made while a navigation is under way
\* replaces path, cursor, target and callback; an update sends the robot
\* only to the waypoint under the cursor of the path installed at that
\* time, or lets it finish the move it is making; and the only callback an
\* update invokes is the one given to the last successful navigate_to.
C11_NavigateToSupersedes ==
    /\ [](nav.on_arrival \in {None, callback_log.given})
    /\ [][(last'.op = "navigate_to" /\ last'.ret /\ is_navigating(nav)) =>
              /\ nav'.path[1] = StartCell(last'.from_pos)
              /\ nav'.path[Len(nav'.path)] = named_locations[last'.name].position
              /\ LegalPath(grid, nav'.path)
              /\ nav'.path_index = 0
              /\ nav'.current_target = last'.name
              /\ nav'.on_arrival = callback_log'.given
              /\ callback_log'.dropped = nav.on_arrival
              /\ robot' = robot]_vars
    /\ [][last'.op = "update" =>
              /\ last'.fired \in {None, callback_log.given}
              /\ robot' # robot =>
                     IF is_moving(robot)
                         THEN Destination(robot') = robot.move_target
                         ELSE /\ nav'.path_index >= 1
                              /\ AtCell([position |-> Destination(robot')],
                                        nav'.path[nav'.path_index])]_vars

\* C11 witness: a navigation with callback cb was superseded, and the
\* superseding navigation has ended and invoked its own callback cb2.
C11_Witness ==
    /\ callback_log.dropped = "cb"
    /\ callback_log.given = "cb2"
    /\ callback_log.count = 1
    /\ last.op = "update"
    /\ last.fired = "cb2"

----------------------------------------------------------------------------
(* The map's claims *)

\* cell c is inside the grid and of a type the robot can stand on
Free(c) == c \in Cells /\ grid[c] \in {EMPTY, DOOR, CHARGER}

\* C12: is_walkable(x, y) is true exactly when (x, y) is inside the grid
\* and the cell is EMPTY, DOOR or CHARGER; outside the grid, negative
\* coordinates included, it is false; whatever edits the map has had.
C12_WalkableIffInsideAndFree ==
    last.op = "is_walkable" =>
        \A p \in QueryPoints :
            p \in last.ret <=>
                /\ 0 <= p[1] /\ p[1] < Width
                /\ 0 <= p[2] /\ p[2] < Height
                /\ grid[p] \in {EMPTY, DOOR, CHARGER}

\* C12 witness: is_walkable was asked of a map that holds a charger and a
\* chair, and answered true for some cell and false for another.
C12_Witness ==
    /\ last.op = "is_walkable"
    /\ \E c \in Cells : grid[c] = CHARGER /\ c \in last.ret
    /\ \E c \in Cells : grid[c] = CHAIR /\ c \notin last.ret

\* the 8-adjacent cells of p that get_neighbors is to return
FreeNeighbors(p) ==
    {n \in ((p[1] - 1)..(p[1] + 1)) \X ((p[2] - 1)..(p[2] + 1)) :
        /\ n # p
        /\ Free(n)
        /\ (n[1] # p[1] /\ n[2] # p[2]) =>
               (Free(<<n[1], p[2]>>) /\ Free(<<p[1], n[2]>>))}

\* C13: get_neighbors(x, y) returns, each once, exactly the 8-adjacent
\* cells that are walkable, a diagonal one only if both cells flanking the
\* step are walkable.
C13_NeighborsExact ==
    last.op = "get_neighbors" =>
        \A p \in QueryPoints :
            LET nb == last.ret[p]
                S == {nb[i] : i \in 1..Len(nb)}
            IN  /\ Len(nb) = Cardinality(S)
                /\ S = FreeNeighbors(p)

\* C13 witness: get_neighbors left out a walkable diagonal cell of which
\* exactly one flank is blocked, and returned another diagonal cell.
C13_Witness ==
    /\ last.op = "get_neighbors"
    /\ \E p \in Cells, n \in Cells, m \in Cells :
           /\ Chebyshev(p, n) = 1 /\ IsDiagonal(p, n) /\ Free(n)
           /\ Free(<<n[1], p[2]>>) # Free(<<p[1], n[2]>>)
           /\ \A i \in 1..Len(last.ret[p]) : last.ret[p][i] # n
           /\ IsDiagonal(p, m)
           /\ \E i \in 1..Len(last.ret[p]) : last.ret[p][i] = m

\* C14: every name of the mapping maps to one location, which carries
\* that name; add_named_location stores the position and the category it
\* is given under the name, whether or not the name was there, leaves the
\* other names alone, and get_location then returns what was stored.
C14_LastWriteWins ==
    /\ [](\A k \in DOMAIN named_locations : named_locations[k].name = k)
    /\ [][last'.op = "add_named_location" =>
              LET given == [name |-> last'.name, position |-> last'.position,
                            cell_type |-> last'.cell_type]
              IN  /\ DOMAIN named_locations'
                         = DOMAIN named_locations \cup {last'.name}
                  /\ named_locations'[last'.name] = given
                  /\ \A k \in DOMAIN named_locations \ {last'.name} :
                         named_locations'[k] = named_locations[k]
                  /\ get_location(named_locations', last'.name)
                         = [raised |-> None, ret |-> given]]_vars

\* C14 witness: add_named_location has replaced the position of a name
\* that was there by another one.
C14_Witness ==
    /\ last.op = "add_named_location"
    /\ last.previous.raised = None
    /\ last.previous.ret.position # last.position
    /\ named_locations[last.name].position = last.position
    /\ Cardinality(DOMAIN named_locations) = 1

\* C15 as claimed: every stored named location has a non-empty name and a
\* position inside the grid.
C15_LocationsAreValidated ==
    \A k \in DOMAIN named_locations :
        /\ k # ""
        /\ named_locations[k].name # ""
        /\ named_locations[k].position \in Cells

\* C16: get_location of a name that is not in the mapping raises KeyError,
\* of a name that is there returns its location; either way the grid and
\* the mapping stay as they are.
C16_GetLocationOrKeyError ==
    [][last'.op = "get_location" =>
          /\ grid' = grid
          /\ named_locations' = named_locations
          /\ IF last'.name \in DOMAIN named_locations
                 THEN /\ last'.raised = None
                      /\ last'.ret = named_locations[last'.name]
                 ELSE last'.raised = "KeyError"]_vars

\* C16 witness: get_location has raised KeyError for a name that is not
\* in a mapping that holds other names.
C16_Witness ==
    /\ last.op = "get_location"
    /\ last.raised = "KeyError"
    /\ last.name \notin DOMAIN named_locations
    /\ DOMAIN named_locations # {}

\* C17: the map loaded from the document a map was saved to has the same
\* width and height, the same type in every cell, and the same names with
\* the same positions and categories.
C17_SaveLoadRoundTrip ==
    last.op = "load_from_json" =>
        /\ last.ret.width = Width
        /\ last.ret.height = Height
        /\ DOMAIN last.ret.grid = Cells
        /\ \A c \in Cells : last.ret.grid[c] = grid[c]
        /\ DOMAIN last.ret.named_locations = DOMAIN named_locations
        /\ \A k \in DOMAIN named_locations :
               /\ last.ret.named_locations[k].name = named_locations[k].name
               /\ last.ret.named_locations[k].position
                      = named_locations[k].position
               /\ last.ret.named_locations[k].cell_type
                      = named_locations[k].cell_type

\* C17 witness: a map that differs from its mirror image and holds a named
\* location has been saved and loaded.
C17_Witness ==
    /\ last.op = "load_from_json"
    /\ \E c \in Cells : grid[c] # grid[<<c[2], c[1]>>]
    /\ DOMAIN named_locations # {}

\* C18: for every grid and every walkable cell c, a_star from c to c
\* returns the one-cell path [c].
C18_SameCellPath ==
    AStarDone =>
        ( is_walkable(grid, as_start[1], as_start[2])
          => as_result[as_start] = [found |-> TRUE, path |-> <<as_start>>] )

\* C18 witness: a_star was called from a walkable cell of a grid that has
\* walls, and the answer for goal = start is a path of one cell.
C18_Witness ==
    /\ AStarDone
    /\ \E c \in Cells : grid[c] = WALL
    /\ is_walkable(grid, as_start[1], as_start[2])
    /\ as_result[as_start].found
    /\ Len(as_result[as_start].path) = 1

\* the first sample of a ray that falls on a cell outside the grid or on an
\* unwalkable cell, 0 when no sample within the step budget does
FirstBlocked(g, rb, dir, max_range) ==
    LET blocked == {i \in 1..((max_range * 4) \div 500) :
                      LET gx == RoundDiv(rb.position[1] * 1000 + dir[1] * 250 * i, 1000000)
                          gy == RoundDiv(rb.position[2] * 1000 + dir[2] * 250 * i, 1000000)
                      IN  \/ <<gx, gy>> \notin Cells
                          \/ g[<<gx, gy>>] \notin {EMPTY, DOOR, CHARGER}}
    IN  IF blocked = {} THEN 0
        ELSE CHOOSE i \in blocked : \A j \in blocked : i <= j

Polled == last.op = "get_distances"

TooClose == \E k \in 1..Len(last.distances) : last.distances[k] < sensor.safe_distance

InNavigator ==
    {t \in {"sim", "api", "brain"} :
        \/ t = "sim" /\ web.sim_pc \in {"tick", "update", "advance"}
        \/ t = "api" /\ web.api_pc = "navigate"
        \/ t = "brain" /\ web.brain_pc = "install"}

\* C21 as claimed: a thread that is inside update or navigate_to holds the
\* simulation lock, so no navigate_to is under way while an update is.
C21_NavigatorUnderLock ==
    /\ \A t \in InNavigator : web.lock = t
    /\ Cardinality(InNavigator) <= 1

\* the cell a request asks for: that of the named location, NoPos when the
\* name is unknown, or the cell given
RequestedCell(body) ==
    IF body.location = None THEN <<body.x, body.y>>
    ELSE IF body.location \in DOMAIN named_locations
        THEN named_locations[body.location].position
    ELSE NoPos

\* C22: a web navigate request, by name or by cell, whose target is unknown,
\* not walkable or not reachable from the robot's cell is answered with
\* success = false and an error message, and leaves the navigator's path,
\* cursor and target as they were.
C22_FailedRequestChangesNothing ==
    last.op = "api_navigate" =>
        LET goal == RequestedCell(last.body)
        IN  (goal = NoPos \/ ~CanPlan(grid, RobotCell(robot), goal)) =>
                /\ ~last.response.success
                /\ last.response.error # None
                /\ nav.path = last.before.path
                /\ nav.path_index = last.before.path_index
                /\ nav.current_target = last.before.current_target

\* C22 witness: while a navigation was under way, a request for a walkable
\* cell that walls cut off was refused and the navigation is as it was.
C22_Witness ==
    /\ last.op = "api_navigate"
    /\ last.body.location = None
    /\ is_walkable(grid, last.body.x, last.body.y)
    /\ ~CanPlan(grid, RobotCell(robot), <<last.body.x, last.body.y>>)
    /\ is_walkable(grid, RobotCell(robot)[1], RobotCell(robot)[2])
    /\ ~last.response.success
    /\ last.before.current_target # None
    /\ last.before.path_index < Len(last.before.path)
    /\ nav.path = last.before.path

\* the square of the distance between two positions
Dist2(p, q) == (q[1] - p[1]) * (q[1] - p[1]) + (q[2] - p[2]) * (q[2] - p[2])

\* C23: update_position with no move target returns false and leaves the
\* position; with one, it snaps onto the target, clears it and returns false
\* when the remaining distance is at most speed * dt, and otherwise moves by
\* speed * dt on the straight line towards the target, short of it, keeps
\* the target and returns true.  Lengths are compared to the thousandth the
\* model computes in, the length of a move to within two of them.
C23_SnapOrAdvance ==
    last.op = "update_position" =>
        LET before == last.before
            step == (before.speed * last.dt) \div 1000
            remaining == IF before.move_target = NoPos THEN 0
                         ELSE Dist2(before.position, before.move_target)
            Snapped == /\ robot.position = before.move_target
                       /\ robot.move_target = NoPos
                       /\ ~last.ret
            Advanced ==
                LET dx == before.move_target[1] - before.position[1]
                    dy == before.move_target[2] - before.position[2]
                    mx == robot.position[1] - before.position[1]
                    my == robot.position[2] - before.position[2]
                IN  /\ last.ret
                    /\ robot.move_target = before.move_target
                    /\ Dist2(before.position, robot.position) <= (step + 2) * (step + 2)
                    /\ Dist2(before.position, robot.position) >= (step - 2) * (step - 2)
                    /\ Dist2(robot.position, before.move_target) < remaining
                    /\ mx * dx >= 0 /\ my * dy >= 0
                    /\ Abs(mx * dy - my * dx) <= Abs(dx) + Abs(dy)
        IN  IF before.move_target = NoPos
                THEN ~last.ret /\ robot = before
            ELSE IF remaining <= step * step THEN Snapped
            ELSE IF remaining >= (step + 1) * (step + 1) THEN Advanced
            ELSE Snapped \/ Advanced

\* C23 witness: after a move_to, one update_position has moved the robot
\* part of the way on a slanted line, and a later one has snapped it onto
\* the target.
C23_Witness ==
    /\ last.op = "update_position"
    /\ last.before.move_target = <<3000, 4000>>
    /\ last.before.position \notin {<<0, 0>>, <<3000, 4000>>}
    /\ last.before.position[1] * 4 = last.before.position[2] * 3
    /\ robot.position = <<3000, 4000>>
    /\ ~is_moving(robot)
    /\ ~last.ret

\* C24: on every grid and for every start and goal a_star comes to its
\* return, with a path or with None, although a cell is pushed again
\* whenever a cheaper way to it is found.
C24_AStarTerminates ==
    <>(/\ search.pc = "done"
       /\ search.result = a_star(grid, search.start, search.goal))

\* C24 witness: a call that has returned after a cell was pushed a second
\* time: more pushes were made than there are cells with a score.
C24_Witness ==
    /\ search.pc = "done"
    /\ search.pushed > Cardinality(DOMAIN search.st.g_score)

\* C25: when walkable cells of a grid are turned into walls, every goal that
\* a_star still finds a path to from a start had a path before, and the
\* path it finds now costs at least what the path it found before cost.
C25_WallsNeverShorten ==
    last.op = "a_star" =>
        \A goal \in Found :
            /\ last.before[goal].found
            /\ PathCost(as_result[goal].path) >= PathCost(last.before[goal].path)

\* C25 witness: a wall went up on the path a_star had found, and the path
\* it finds now is a detour that costs more.
C25_Witness ==
    /\ last.op = "a_star"
    /\ \E goal \in Found :
           /\ \E i \in 1..Len(last.before[goal].path) :
                  grid[last.before[goal].path[i]] = WALL
           /\ PathCost(as_result[goal].path) > PathCost(last.before[goal].path)

\* C26: since the last reset of the engine (load or start), the events the
\* ticks have triggered are the first _event_index loaded events in the
\* order of their times, each once; each was triggered by the first tick
\* that brought current_time to its time or beyond, and after a tick no due
\* event is left; a tick of an engine that is paused, stopped or not started
\* changes nothing and returns no event.
C26_EventsOnceInTimeOrder ==
    /\ Len(last.log) = scenario._event_index
    /\ \A i \in 1..Len(last.log) :
           /\ last.log[i].event = scenario._events[i]
           /\ last.log[i].event.time <= last.log[i].at
           /\ last.log[i].first \/ last.log[i].prev < last.log[i].event.time
           /\ \A j \in 1..i : last.log[j].event.time <= last.log[i].event.time
                              /\ last.log[j].at <= last.log[i].at
    /\ last.ticks > 0 =>
           \A i \in 1..Len(scenario._events) :
               scenario._events[i].time <= scenario._current_time
                   => i <= Len(last.log)
    /\ last.op = "tick" =>
           /\ (~last.before._running \/ last.before._paused)
                  => scenario = last.before /\ last.ret = <<>>
           /\ Len(last.ret) <= Len(last.log)
           /\ \A k \in 1..Len(last.ret) :
                  last.ret[k] = last.log[Len(last.log) - Len(last.ret) + k].event

\* C26 witness: at double speed, one tick has triggered two events of
\* different times, the earlier one first, after an earlier tick that
\* advanced the time.
C26_Witness ==
    /\ last.op = "tick"
    /\ Len(last.ret) = 2
    /\ last.ret[1].time < last.ret[2].time
    /\ last.ret[1].event_type = "person_leaves"
    /\ last.ticks >= 2
    /\ last.before._speed = 2000

\* the idle trigger's rule, for the call just made: was says whether the
\* trigger has fired since the idle timer was last reset, acc is the update
\* time accumulated since then while a person was attended
IdleOnce(was, acc) ==
    LET b == last.before
        due == /\ last.op = "update"
               /\ Attended(b.detector, b.trigger)
               /\ ~was
               /\ acc >= IDLE_TIMEOUT
    IN  /\ Has(last.fired, "idle") <=> due
        /\ Len(SelectSeq(last.fired, LAMBDA t : t = "idle")) <= 1
        /\ Has(last.fired, "idle") => person_visible(b.detector)

\* C27 as stated: while a person has stayed visible and the trigger running
\* and enabled since the idle timer was last reset by reset_idle_timer, a
\* greet or a farewell, the idle trigger fires at the first update that
\* brings the accumulated update time to idle_timeout, and not again before
\* the next of those resets.
C27_IdleOnceUntilListedReset ==
    ~last.broken => IdleOnce(last.was_fired_listed, last.acc)

\* C27: the idle trigger fires in exactly one kind of call: an update made
\* while a person is visible and the trigger is running and enabled, the
\* first one that brings the update time accumulated since the idle timer
\* was last reset to idle_timeout.  It fires once there and not again until
\* the timer is reset by reset_idle_timer, a greet, a farewell or start, and
\* never while no person is visible.
C27_IdleOnceUntilReset == IdleOnce(last.was_fired, last.acc)

\* C27 witness: the idle trigger fires a second time for a person who
\* stayed visible to a running, enabled trigger, after start re-armed it.
C27_Witness ==
    /\ last.op = "update"
    /\ Has(last.fired, "idle")
    /\ last.was_fired_listed
    /\ ~last.broken
    /\ ~last.was_fired

\* C28: inject_person calls on_person_appeared exactly when it takes the
\* number of visible persons from 0 to 1, remove_person calls on_person_left
\* exactly when it takes it from 1 to 0, no other call makes a callback, and
\* person_count is the number of names injected and not removed since.
C28_CallbacksAtBoundary ==
    LET n0 == person_count(last.before.detector)
        n1 == person_count(persons)
    IN  /\ person_count(persons) = Cardinality(last.present)
        /\ last.calls =
               IF last.op = "inject_person" /\ n0 = 0 /\ n1 = 1
                   THEN <<"on_person_appeared">>
               ELSE IF last.op = "remove_person" /\ n0 = 1 /\ n1 = 0
                   THEN <<"on_person_left">>
               ELSE <<>>
        /\ last.op = "remove_person"
               /\ last.before.detector._persons[last.name] = None
               => persons = last.before.detector

\* C28 witness: removing a name that is not there, while another person is
\* visible, has changed nothing and made no callback.
C28_Witness ==
    /\ last.op = "remove_person"
    /\ last.before.detector._persons[last.name] = None
    /\ person_count(persons) = 1
    /\ last.calls = <<>>

\* the step is an update(dt) that tried to replan
ReplanStep(dt) ==
    /\ last'.op = "update"
    /\ last'.replan # "none"
    /\ \E r \in {update(nav, robot, grid, named_locations, dt)} :
           /\ nav' = r.nav
           /\ robot' = r.robot
           /\ last'.replan = r.replan

\* C29: two replanning attempts of update, successful or not, are at least
\* the cooldown apart: an update that tried to replan is not followed at
\* once by an update with a dt shorter than the cooldown that tries again.
C29_AttemptsCooldownApart ==
    [][\A dt \in {d \in DtSet : d < REPLAN_COOLDOWN} :
           (last.op = "update" /\ last.replan # "none") => ~ReplanStep(dt)]_vars

Commanded(w) ==
    \E dt \in DtSet :
        robot' = update_position(move_to(robot, w[1] * ORTH_COST,
                                                w[2] * ORTH_COST), dt)

\* the step is an update during a navigation; base is the cursor its
\* waypoint step starts from: 0 after a replan that installed a path
WaypointStep(mid_move) ==
    LET base == IF last'.replan = "ok" THEN 0 ELSE nav.path_index
    IN  IF is_moving(robot)
            THEN /\ nav'.path_index = base
                 /\ mid_move
        ELSE IF base < Len(nav'.path)
            THEN /\ nav'.path_index = base + 1
                 /\ Commanded(nav'.path[base + 1])
        ELSE /\ nav'.path_index = nav.path_index
             /\ robot' = robot

\* C31 as stated: an update commands a move, and advances the cursor by
\* one, only if the robot is not in the middle of a move; if it is, the
\* robot's move target after the update is the one from before.
C31_NoCommandMidMove ==
    [][(last'.op = "update" /\ is_navigating(nav)) =>
          WaypointStep(robot'.move_target = robot.move_target)]_vars

\* C31: an update commands a move, and advances the cursor by one, only if
\* the robot is not in the middle of a move, and then it commands exactly
\* the waypoint under the cursor; if the robot is in the middle of a move
\* the update commands nothing, the robot only goes on with its move, so
\* that its move target is the one from before, or none once the robot has
\* reached it, and the cursor is not advanced.
C31_NoCommandMidMoveOrReached ==
    [][(last'.op = "update" /\ is_navigating(nav)) =>
          WaypointStep(/\ \E dt \in DtSet : robot' = update_position(robot, dt)
                       /\ robot'.move_target \in {robot.move_target, NoPos})]_vars

\* C31 witness: the robot stands on the waypoint last commanded, a diagonal
\* step from the one before, with waypoints left.  No single update covers
\* a diagonal step, so the update just made found the robot in the middle
\* of the move and ended it.
C31_Witness ==
    /\ last.op = "update"
    /\ is_navigating(nav)
    /\ ~is_moving(robot)
    /\ nav.path_index >= 2
    /\ nav.path_index < Len(nav.path)
    /\ robot.position = <<nav.path[nav.path_index][1] * ORTH_COST,
                          nav.path[nav.path_index][2] * ORTH_COST>>
    /\ nav.path[nav.path_index][1] # nav.path[nav.path_index - 1][1]
    /\ nav.path[nav.path_index][2] # nav.path[nav.path_index - 1][2]

\* sample i of the ray is off the grid or not walkable
BlockedSample(direction, i) ==
    LET a == world_angle(robot.heading, direction)
        gx == RoundDiv(robot.position[1] * 1000 + a[1] * RAY_STEP * i, 1000000)
        gy == RoundDiv(robot.position[2] * 1000 + a[2] * RAY_STEP * i, 1000000)
    IN  ~_in_bounds(gx, gy) \/ ~is_walkable(grid, gx, gy)

\* the ray meets no blocked sample closer than distance: sample i is
\* 0.125 m * i away
NoSampleCloser(direction, distance) ==
    \A i \in 1..max_steps(sensor._max_range) :
        BlockedSample(direction, i) => (RAY_STEP * i) \div 2 >= distance

ConflictingDimensions(m) ==
    Len(m.grid) # m.height \/ Len(m.grid[1]) # m.width

\* C33: is_walkable on a map loaded from a document whose grid array
\* conflicts with its declared width and height fails with an error and
\* never gives an ordinary answer, here for the cells inside the declared
\* width and height.
C33_ConflictFailsFast ==
    (/\ last.op = "is_walkable"
     /\ ConflictingDimensions(omap)
     /\ 0 <= last.x /\ last.x < omap.width
     /\ 0 <= last.y /\ last.y < omap.height)
        => last.ret \notin {"True", "False"}

\* C34: a tick with a velocity set turns the heading by angular * dt and
\* brings it into [-pi, pi], then moves the position by linear * dt along
\* the heading it has just set, not the one from before; a tick with both
\* velocities zero, as after stop or close, leaves x, y and the heading as
\* they were, and no tick changes the velocities.
C34_TickTurnsThenMoves ==
    last.op = "tick" =>
        LET b == last.before
            turned == b.heading + b._angular_speed * last.dt
        IN  /\ chassis._linear_speed = b._linear_speed
            /\ chassis._angular_speed = b._angular_speed
            /\ IF b._linear_speed = 0 /\ b._angular_speed = 0
                   THEN /\ chassis.x = b.x
                        /\ chassis.y = b.y
                        /\ chassis.heading = b.heading
                   ELSE /\ chassis.heading \in (-4)..4
                        /\ (chassis.heading - turned) % 8 = 0
                        /\ chassis.x - b.x
                               = Quot(b._linear_speed * Cos(chassis.heading) * last.dt, 1000)
                        /\ chassis.y - b.y
                               = Quot(b._linear_speed * Sin(chassis.heading) * last.dt, 1000)

\* C34 witness: a tick has turned the chassis past pi, so that the heading
\* was wrapped, and moved it along the new heading.
C34_Witness ==
    /\ last.op = "tick"
    /\ last.before._linear_speed # 0
    /\ last.before.heading + last.before._angular_speed * last.dt > 4
    /\ chassis.heading < 0
    /\ Cos(chassis.heading) # Cos(last.before.heading)
    /\ chassis.x # last.before.x

C36_ChainedNavigationTakesEffect ==
    (last.op = "update" /\ last.fired \in DOMAIN ChainedCallbacks
                        /\ last.outcome = "ok")
        => /\ nav.current_target = last.name
           /\ nav.path = a_star(grid, StartCell(robot.position),
                                named_locations[last.name].position).path
           /\ nav.path_index = 0
           /\ nav.on_arrival = ChainedCallbacks[last.fired].on_arrival

\* cell w is the cell c itself or one of its neighbours on the grid: walkable
\* and, when diagonal, with both cells beside the step walkable
EqualOrNeighbor(c, w) ==
    \/ w = c
    \/ \E i \in DOMAIN get_neighbors(grid, c[1], c[2]) :
           get_neighbors(grid, c[1], c[2])[i] = w

\* C37: on a static map, with every navigate_to made from the robot's
\* position, each waypoint an update commands to the robot (the robot was not
\* moving; the waypoint is the one under the cursor once a replan, if any,
\* has been done) is a walkable cell equal or adjacent, with no corner cut,
\* to the cell the robot stands on when commanded.
C37_CommandsStayAdjacent ==
    [][(/\ last'.op = "update"
        /\ is_navigating(nav)
        /\ ~is_moving(robot)
        /\ (last'.replan = "ok" \/ nav'.path_index = nav.path_index + 1))
           => LET w == nav'.path[nav'.path_index]
              IN  /\ Commanded(w)
                  /\ is_walkable(grid, w[1], w[2])
                  /\ EqualOrNeighbor(StartCell(robot.position), w)]_vars

\* the first waypoint of a path has been commanded and the robot is on its
\* way to it: the path was planned while the robot was in the middle of a
\* move, from a cell other than the one the move ended on
C37_Witness ==
    /\ last.op = "update"
    /\ is_navigating(nav)
    /\ nav.path_index = 1
    /\ is_moving(robot)
    /\ robot.move_target = <<nav.path[1][1] * ORTH_COST,
                             nav.path[1][2] * ORTH_COST>>

\* sequence r is the end of sequence p
IsSuffix(r, p) ==
    /\ Len(r) <= Len(p)
    /\ \A i \in 1..Len(r) : r[i] = p[Len(p) - Len(r) + i]

\* C38: in every state the navigate_to, update, replanning and check_patrol
\* calls lead to, the cursor lies between 0 and the length of the path, and
\* remaining_path is the end of current_path left from the cursor on.
C38_CursorWithinPath ==
    /\ 0 <= nav.path_index
    /\ nav.path_index <= Len(nav.path)
    /\ IsSuffix(remaining_path(nav), current_path(nav))
    /\ Len(remaining_path(nav)) = Len(nav.path) - nav.path_index

\* a replan has just installed a path shorter than the one before could be
\* at the same cursor: the cursor is back at 0 on a path of one cell
C38_Witness ==
    /\ last.op = "update"
    /\ last.replan = "ok"
    /\ is_navigating(nav)
    /\ Len(nav.path) = 1
    /\ nav.path_index = Len(nav.path)

\* C39: in every state the Navigator's operations lead to, waypoints left
\* under the cursor imply a current target; is_navigating is true exactly
\* when the current target is not None; and an idle navigator has an empty
\* remaining_path.
C39_TargetWhileWaypointsRemain ==
    /\ (nav.path_index < Len(nav.path)) => (nav.current_target # None)
    /\ is_navigating(nav) <=> (nav.current_target # None)
    /\ ~is_navigating(nav) => (remaining_path(nav) = <<>>)

\* the navigator is idle again after a navigation: its path is still there,
\* consumed to the end
C39_Witness ==
    /\ last.op = "update"
    /\ ~is_navigating(nav)
    /\ Len(nav.path) >= 2
    /\ remaining_path(nav) = <<>>

\* the next entry of the patrol schedule exists and is due at the given time
EntryDue(nv, current_minutes) ==
    /\ nv.patrol_index < Len(nv.patrol_schedule)
    /\ current_minutes >= nv.patrol_schedule[nv.patrol_index + 1].time_minutes

\* C40: a check_patrol call that finds the next entry due advances the
\* patrol index by exactly one and returns that entry, whether or not the
\* navigate_to it makes succeeds, and a call that finds none due changes
\* nothing and returns None; the index is put back to 0 by
\* set_patrol_schedule and never decreases otherwise; it never exceeds the
\* length of the schedule.
C40_PatrolEntryConsumedOnce ==
    /\ [][last'.op = "check_patrol"
              => IF EntryDue(nav, last'.minutes)
                     THEN /\ nav'.patrol_index = nav.patrol_index + 1
                          /\ last'.ret
                          /\ patrol_log'.triggered =
                                 Append(patrol_log.triggered,
                                        nav.patrol_schedule[nav.patrol_index + 1])
                          /\ last'.outcome \in {"ok", "NotFound", "NoPath"}
                     ELSE /\ nav'.patrol_index = nav.patrol_index
                          /\ ~last'.ret
                          /\ patrol_log'.triggered = patrol_log.triggered
                          /\ last'.outcome = "none"]_vars
    /\ [][IF last'.op = "set_patrol_schedule"
              THEN nav'.patrol_index = 0
              ELSE nav'.patrol_index >= nav.patrol_index]_vars
    /\ [](nav.patrol_index <= Len(nav.patrol_schedule))

\* every entry of the schedule has been returned once and is consumed,
\* though the navigate_to failed each time: the first for an unknown
\* location, the last, just now, for want of a path
C40_Witness ==
    /\ last.op = "check_patrol"
    /\ last.ret
    /\ last.outcome = "NoPath"
    /\ nav.patrol_index = Len(nav.patrol_schedule)
    /\ nav.patrol_schedule[1].location_name = "X"
    /\ Len(patrol_log.triggered) = Len(nav.patrol_schedule)

============================================================================
